---------------------------- MODULE Spec2Model ----------------------------
(***************************************************************************)
(* Credential lifecycle of highwind.Client (src/highwind/client.py):       *)
(* Client.get, Client._authenticate, Client.login,                         *)
(* Client._refresh_access_token and the expiry predicates.                 *)
(*                                                                         *)
(* Time is counted in ticks, TicksPerSec ticks to the second: the clock    *)
(* (datetime.now) has sub-second resolution, the stored expiry timestamps  *)
(* (TIME_FORMAT "%Y-%m-%dT%H:%M:%S") are whole seconds, and expires_in is  *)
(* a float number of seconds, held here as a number of ticks.              *)
(***************************************************************************)
EXTENDS Integers, FiniteSets, Sequences, TLC

\* ------------------------------------------------------------------ bounds

\* Resolution of the clock: ticks per second.
TicksPerSec == 2
\* The clock runs from 0 to MaxNow ticks.
MaxNow == 3
\* expires_in / refresh_expires_in of a token response: 0..MaxExpiresIn ticks.
MaxExpiresIn == 2

\* ---------------------------------------------------------------- values

\* Python's None, for the optional strings (tokens, codes).
None == "None"
\* Python's None for an optional expiry timestamp (Client.__init__ default).
NoTimestamp == -1

\* not x, for an optional string: None and the empty string are falsy.
Falsy(x) == x \in {None, ""}

\* Whole seconds a stored timestamp can name.
Seconds == 0 .. (MaxNow \div TicksPerSec)
Timestamps == {NoTimestamp} \cup Seconds

\* Credentials a caller can pre-seed through Client.__init__.
SeedAccessTokens == {None, "A0"}
SeedRefreshTokens == {None, "R0"}
SeedExpiresIn == {0, MaxExpiresIn}

\* ------------------------------------------------------------------ state

VARIABLES
    client,   \* the six credential fields of the Client instance
    now,      \* the wall clock (datetime.now(tz=utc)), in ticks
    pc,       \* position of the caller inside Client.get
    local,    \* locals of login: the auth_code the listener returned
    calls,    \* per get(): how often login, _refresh_access_token,
              \* requests.post and requests.get were called (the tests' spies)
    sent,     \* per get(): the refresh_token the refresh POST carried, and the
              \* access token of the resource GET's Authorization header
    resp,     \* per get(): << >>, or <<token>> for the token dictionary a 2xx
              \* token-endpoint response returned
    err,      \* per get(): None, or the exception that get() raised
    entry,    \* per get(): the credential and the clock when get() was called
    read,     \* per get(): the clock at the last expiry evaluation, or -1
    applied,  \* per get(): << >>, or <<t1, t2>> for the two clock readings of
              \* the _set_variables_from_token that applied resp
    use_case, \* how far the construction of a UseCase object has come
    inference, \* << >>, or <<r>> for the last request run_inference sent: its
              \* Authorization header, the credential and the clock at that time
    thread,   \* two callers sharing the client: each one's position in its
              \* get() call and the locals of that call
    listener, \* the caller whose HTTPServer holds the callback port, or 0
    whole,    \* two callers: the credentials written as a unit by the
              \* _set_variables_from_token calls that have finished
    factory,  \* ClientFactory: client_singleton (0 for None, else the identity
              \* of a Client) and the Client objects constructed so far
    history,  \* the calls made to ClientFactory.get_client and
              \* GradioApp.setup_with_request, with what each returned
    handler,  \* two request handlers sharing ClientFactory: each one's
              \* request, its position in setup_with_request and get_client
              \* and the locals of those calls
    attempt,  \* the login attempt in progress: its position in login() and
              \* the locals of login(), its listener and what the browser did
    issued,   \* per login attempt so far, the PKCE pair and state generated
    inbox,    \* the connections waiting at the bound callback port
    last,     \* << >>, or <<r>> for the login attempt that ended last: what
              \* it generated, received and posted, and the token it applied
    previous  \* << >>, or <<t>> when the get() in progress follows at once on
              \* a get() that applied a token: the clock reading of that
              \* apply's access expiry

login_vars == <<attempt, issued, inbox, last>>

\* ------------------------------------------------------- time conversions

\* datetime.strptime(timestamp, TIME_FORMAT).replace(tzinfo=utc): the instant
\* (in ticks) a whole-second timestamp names.
strptime(timestamp) == timestamp * TicksPerSec

\* datetime.strftime(TIME_FORMAT): the whole second an instant falls in; the
\* format has no sub-second field, so the fraction is dropped.
strftime(t) == t \div TicksPerSec

\* -------------------------------------------------------- pure functions

_is_token_expired_grace(timestamp, t) ==
    IF timestamp = NoTimestamp
    THEN TRUE
    ELSE strptime(timestamp) <= t + 1

_is_token_expired_strict(timestamp, t) ==
    IF timestamp = NoTimestamp
    THEN TRUE
    ELSE strptime(timestamp) < t

_is_token_expired_absent_is_valid(timestamp, t) ==
    IF timestamp = NoTimestamp
    THEN FALSE
    ELSE strptime(timestamp) <= t

_is_token_expired(timestamp, t) ==
    IF timestamp = NoTimestamp
    THEN TRUE
    ELSE strptime(timestamp) <= t

_is_access_token_expired_ignoring_zero(c, t) ==
    _is_token_expired(c.access_token_expires_at, t)

_is_access_token_expired(c, t) ==
    IF c.access_token_expires_in = 0
    THEN FALSE
    ELSE _is_token_expired(c.access_token_expires_at, t)

_is_refresh_token_expired_ignoring_zero(c, t) ==
    _is_token_expired(c.refresh_token_expires_at, t)

_is_refresh_token_expired(c, t) ==
    IF c.refresh_token_expires_in = 0
    THEN FALSE
    ELSE _is_token_expired(c.refresh_token_expires_at, t)

_calculate_token_expiry_rounded_up(expires_in, t) ==
    strftime(t + expires_in + TicksPerSec - 1)

_calculate_token_expiry_of_now(expires_in, t) == strftime(t)

_calculate_token_expiry(expires_in, t) == strftime(t + expires_in)

\* dict.get(key, default)
DictGet(d, key, default) == IF key \in DOMAIN d THEN d[key] ELSE default

_set_variables_from_token_keep_refresh(token, t_access, t_refresh) ==
    LET expires_in == DictGet(token, "expires_in", 0)
        refresh_expires_in == DictGet(token, "refresh_expires_in", 0)
    IN  [ access_token             |-> DictGet(token, "access_token", None),
          access_token_expires_in  |-> expires_in,
          access_token_expires_at  |-> _calculate_token_expiry(expires_in, t_access),
          refresh_token            |-> DictGet(token, "refresh_token", client.refresh_token),
          refresh_token_expires_in |-> refresh_expires_in,
          refresh_token_expires_at |-> _calculate_token_expiry(refresh_expires_in, t_refresh) ]

\* _calculate_token_expiry reads the clock (datetime.now) each time it is
\* called: t_access at line 375, t_refresh at line 379.
_set_variables_from_token(token, t_access, t_refresh) ==
    LET expires_in == DictGet(token, "expires_in", 0)
        refresh_expires_in == DictGet(token, "refresh_expires_in", 0)
    IN  [ access_token             |-> DictGet(token, "access_token", None),
          access_token_expires_in  |-> expires_in,
          access_token_expires_at  |-> _calculate_token_expiry(expires_in, t_access),
          refresh_token            |-> DictGet(token, "refresh_token", None),
          refresh_token_expires_in |-> refresh_expires_in,
          refresh_token_expires_at |-> _calculate_token_expiry(refresh_expires_in, t_refresh) ]


\* The variables of everything around one caller's Client.get.
outside == <<use_case, inference, thread, listener, whole, factory, history, handler, login_vars, previous>>

vars == <<client, now, pc, local, calls, sent, resp, err, entry, read, applied,
          outside>>

\* Client.__init__: the credential a caller seeds the client with.
Credentials ==
    [ access_token             : SeedAccessTokens,
      access_token_expires_in  : SeedExpiresIn,
      access_token_expires_at  : Timestamps,
      refresh_token            : SeedRefreshTokens,
      refresh_token_expires_in : SeedExpiresIn,
      refresh_token_expires_at : Timestamps ]

NotSent == "-"
NoCalls == [login |-> 0, refresh |-> 0, post |-> 0, get |-> 0]
NoSent == [refresh_token |-> NotSent, bearer |-> NotSent]
NoLocal == [auth_code |-> NotSent]

\* The callers of the specification in which two threads share one client.
Callers == {1, 2}
NoThread ==
    [pc |-> "idle", token |-> << >>, via |-> NotSent, sent |-> NotSent,
     t_access |-> -1, t_refresh |-> -1, timestamp |-> NoTimestamp,
     mixed |-> FALSE, both_logged_in |-> FALSE]

\* No login attempt in progress: login() has no frame, so no locals, and no
\* HTTPServer exists. 0 stands for a value that is not there.
NoAttempt ==
    [ pc |-> "none", code_verifier |-> 0, state |-> 0, code_challenge |-> << >>,
      shown |-> FALSE, bound |-> FALSE, refused |-> FALSE,
      auth_code |-> NotSent, callback_state |-> 0 ]

\* A request handler that has not begun: 0 stands for no object.
NoHandler ==
    [ pc |-> "idle", request |-> << >>, call |-> << >>, made |-> 0,
      setup_result |-> 0, result |-> 0 ]

\* ClientFactory before any call: client_singleton = None (line 11), no
\* Client constructed. A Client's identity is its position in objects.
NoFactory == [client_singleton |-> 0, objects |-> << >>]

\* The JSON bodies a 2xx token-endpoint response can carry: every key may be
\* missing; access_token may be present and empty.
TokenDict(a, e, r, re) ==
    LET keys == (IF a = None THEN {} ELSE {"access_token"})
           \cup (IF e = -1 THEN {} ELSE {"expires_in"})
           \cup (IF r = None THEN {} ELSE {"refresh_token"})
           \cup (IF re = -1 THEN {} ELSE {"refresh_expires_in"})
    IN  [ k \in keys |->
            CASE k = "access_token" -> a
              [] k = "expires_in" -> e
              [] k = "refresh_token" -> r
              [] OTHER -> re ]

TokenResponses ==
    { TokenDict(a, e, r, re) :
        a \in {None, "", "A1"}, e \in -1 .. MaxExpiresIn,
        r \in {None, "R1"}, re \in -1 .. MaxExpiresIn }

\* An HTTP request as the callback server's handler sees it: the method, and
\* self.path cut as do_GET cuts it, at the first "?" (question_mark: there
\* is one), what follows at every "&", each part at every "=". A "?" with
\* nothing after it gives the one part <<"">>. A query Keycloak's redirect
\* would carry: session_state, then code and state when there are any (a
\* state of 0 is no state).
Query(code, state) ==
    << <<"session_state", "x">> >>
    \o (IF code = None THEN << >> ELSE << <<"code", code>> >>)
    \o (IF state = 0 THEN << >> ELSE << <<"state", state>> >>)

Targets(states) ==
    { [question_mark |-> FALSE, parts |-> << >>] }
    \cup { [question_mark |-> TRUE, parts |-> q] :
             q \in { << <<"">> >>, << <<"code", "code1", "b">> >> }
                   \cup { Query(c, s) : c \in {None, "code1"}, s \in states } }

RequestsWith(states) ==
    { [ method |-> m, path |-> p,
        question_mark |-> g.question_mark, parts |-> g.parts ] :
        m \in {"GET", "POST"}, p \in {"/callback", "/other"}, g \in Targets(states) }

\* What the single request handled by the callback server can be.
CallbackRequests == RequestsWith({0})

\* query_params.get(key) on dict(qc.split("=") for qc in ...), lines 29-32:
\* the value of the last pair with that key, None without one.
QueryGet(parts, key, default) ==
    LET at == { i \in DOMAIN parts : parts[i][1] = key }
    IN  IF at = {} THEN default
        ELSE parts[CHOOSE i \in at : \A j \in at : j <= i][2]

\* ClientCallbackHandler.do_GET, lines 26-32: what it leaves on the server,
\* << >> when it sets nothing. Without "/callback" in the path it does
\* nothing; split("?", 1)[1] raises IndexError without a "?", dict(...)
\* raises ValueError unless every part has exactly one "=", and socketserver
\* swallows either error.
do_GET(request) ==
    IF /\ request.path = "/callback"
       /\ request.question_mark
       /\ \A i \in DOMAIN request.parts : Len(request.parts[i]) = 2
    THEN << [ auth_code |-> QueryGet(request.parts, "code", None),
              state |-> QueryGet(request.parts, "state", 0) ] >>
    ELSE << >>

\* server.handle_request(), line 235, with ClientCallbackHandler (line 231):
\* BaseHTTPRequestHandler calls do_GET for a GET and answers 501 to a method
\* the handler does not define.
handle_one_request(request) ==
    IF request.method = "GET" THEN do_GET(request) ELSE << >>

Init ==
    /\ client \in Credentials
    /\ now \in 0 .. MaxNow
    /\ pc = "idle"
    /\ local = NoLocal
    /\ calls = NoCalls
    /\ sent = NoSent
    /\ resp = << >>
    /\ err = None
    /\ entry = [client |-> client, now |-> now]
    /\ read = -1
    /\ applied = << >>
    /\ use_case = "none"
    /\ inference = << >>
    /\ thread = [t \in Callers |-> NoThread]
    /\ listener = 0
    /\ whole = {}
    /\ factory = NoFactory
    /\ history = << >>
    /\ handler = [h \in Callers |-> NoHandler]
    /\ attempt = NoAttempt
    /\ issued = << >>
    /\ inbox = << >>
    /\ last = << >>
    /\ previous = << >>

\* ---------------------------------------------------------------- actions

\* What the clock can show at a second reading shortly after it showed t.
LaterReadings(t) == { t2 \in {t, t + 1} : t2 <= MaxNow }

Tick_either_way ==
    /\ pc \notin {"done", "raised"}
    /\ \E t \in {now - 1, now + 1} :
         /\ t \in 0 .. MaxNow
         /\ now' = t
    /\ UNCHANGED <<client, pc, local, calls, sent, resp, err, entry, read, applied>>
    /\ UNCHANGED outside

\* The clock advances; it never goes back.
Tick ==
    /\ now < MaxNow
    /\ pc \notin {"done", "raised"}
    /\ now' = now + 1
    /\ UNCHANGED <<client, pc, local, calls, sent, resp, err, entry, read, applied>>
    /\ UNCHANGED outside

\* A caller invokes Client.get (line 122: self._authenticate()).
get ==
    /\ pc = "idle"
    /\ pc' = "authenticate"
    /\ entry' = [client |-> client, now |-> now]
    /\ UNCHANGED <<client, now, local, calls, sent, resp, err, read, applied>>
    /\ UNCHANGED outside

_authenticate_181_refresh_first ==
    /\ pc = "authenticate"
    /\ IF Falsy(client.access_token)
       THEN IF Falsy(client.refresh_token)
            THEN /\ pc' = "login"
                 /\ calls' = [calls EXCEPT !.login = @ + 1]
            ELSE /\ pc' = "refresh"
                 /\ calls' = [calls EXCEPT !.refresh = @ + 1]
       ELSE /\ pc' = "check183"
            /\ UNCHANGED calls
    /\ UNCHANGED <<client, now, local, sent, resp, err, entry, read, applied>>
    /\ UNCHANGED outside

\* _authenticate, line 181: if not self.access_token: self.login()
_authenticate_181 ==
    /\ pc = "authenticate"
    /\ IF Falsy(client.access_token)
       THEN /\ pc' = "login"
            /\ calls' = [calls EXCEPT !.login = @ + 1]
       ELSE /\ pc' = "check183"
            /\ UNCHANGED calls
    /\ UNCHANGED <<client, now, local, sent, resp, err, entry, read, applied>>
    /\ UNCHANGED outside

\* line 183: elif self.access_token and not self._is_access_token_expired()
_authenticate_183 ==
    /\ pc = "check183"
    /\ read' = now
    /\ IF ~_is_access_token_expired(client, now)
       THEN pc' = "request"
       ELSE pc' = "check185"
    /\ UNCHANGED <<client, now, local, calls, sent, resp, err, entry, applied>>
    /\ UNCHANGED outside

\* line 185, left operand: elif self._is_access_token_expired() and ...
_authenticate_185 ==
    /\ pc = "check185"
    /\ read' = now
    /\ IF _is_access_token_expired(client, now)
       THEN pc' = "check185r"
       ELSE pc' = "check187"
    /\ UNCHANGED <<client, now, local, calls, sent, resp, err, entry, applied>>
    /\ UNCHANGED outside

_authenticate_185r_inverted ==
    /\ pc = "check185r"
    /\ read' = now
    /\ IF _is_refresh_token_expired(client, now)
       THEN /\ pc' = "refresh"
            /\ calls' = [calls EXCEPT !.refresh = @ + 1]
       ELSE /\ pc' = "check187"
            /\ UNCHANGED calls
    /\ UNCHANGED <<client, now, local, sent, resp, err, entry, applied>>
    /\ UNCHANGED outside

\* line 185, right operand: ... and not self._is_refresh_token_expired()
_authenticate_185r ==
    /\ pc = "check185r"
    /\ read' = now
    /\ IF ~_is_refresh_token_expired(client, now)
       THEN /\ pc' = "refresh"
            /\ calls' = [calls EXCEPT !.refresh = @ + 1]
       ELSE /\ pc' = "check187"
            /\ UNCHANGED calls
    /\ UNCHANGED <<client, now, local, sent, resp, err, entry, applied>>
    /\ UNCHANGED outside

_authenticate_187_relogin ==
    /\ pc = "check187"
    /\ read' = now
    /\ IF _is_refresh_token_expired(client, now)
       THEN /\ pc' = "login"
            /\ calls' = [calls EXCEPT !.login = @ + 1]
       ELSE /\ pc' = "request"
            /\ UNCHANGED calls
    /\ UNCHANGED <<client, now, local, sent, resp, err, entry, applied>>
    /\ UNCHANGED outside

\* line 187: elif self._is_refresh_token_expired(): raise Exception(...)
\* When no branch is taken _authenticate returns None and get() goes on.
_authenticate_187 ==
    /\ pc = "check187"
    /\ read' = now
    /\ IF _is_refresh_token_expired(client, now)
       THEN /\ pc' = "raised"
            /\ err' = "Please refresh your login."
       ELSE /\ pc' = "request"
            /\ UNCHANGED err
    /\ UNCHANGED <<client, now, local, calls, sent, resp, entry, applied>>
    /\ UNCHANGED outside

\* login, lines 151-155: the authorization URL is generated, printed and
\* (AUTOMATICALLY_OPEN_BROWSER) opened in a browser.
login ==
    /\ pc = "login"
    /\ pc' = "listen"
    /\ UNCHANGED <<client, now, local, calls, sent, resp, err, entry, read, applied>>
    /\ UNCHANGED outside

\* login, line 157, _start_server_to_listen_for_auth_code: HTTPServer(...)
\* cannot bind the port and raises OSError.
_start_server_bind_fails ==
    /\ pc = "listen"
    /\ pc' = "raised"
    /\ err' = "OSError"
    /\ UNCHANGED <<client, now, local, calls, sent, resp, entry, read, applied>>
    /\ UNCHANGED outside

\* _start_server_to_listen_for_auth_code, lines 229-237: handle_request()
\* handles one request with ClientCallbackHandler. Only a request on which
\* do_GET gets as far as line 31 sets server.auth_code; after any other
\* request reading server.auth_code (line 237) raises AttributeError.
_start_server_to_listen_for_auth_code ==
    /\ pc = "listen"
    /\ \E request \in CallbackRequests :
         IF handle_one_request(request) # << >>
         THEN /\ local' = [auth_code |-> handle_one_request(request)[1].auth_code]
              /\ pc' = "exchange"
              /\ UNCHANGED err
         ELSE /\ pc' = "raised"
              /\ err' = "AttributeError"
              /\ UNCHANGED local
    /\ UNCHANGED <<client, now, calls, sent, resp, entry, read, applied>>
    /\ UNCHANGED outside

\* login, line 159, _get_access_token: requests.post answers non-2xx and
\* raise_for_status() raises HTTPError.
_get_access_token_http_error ==
    /\ pc = "exchange"
    /\ calls' = [calls EXCEPT !.post = @ + 1]
    /\ pc' = "raised"
    /\ err' = "HTTPError"
    /\ UNCHANGED <<client, now, local, sent, resp, entry, read, applied>>
    /\ UNCHANGED outside

\* login, lines 159-169: a 2xx response; its token is applied with
\* _set_variables_from_token, and only then is access_token looked at.
login_exchange ==
    /\ pc = "exchange"
    /\ \E token \in TokenResponses, t_refresh \in LaterReadings(now) :
         /\ calls' = [calls EXCEPT !.post = @ + 1]
         /\ resp' = <<token>>
         /\ client' = _set_variables_from_token(token, now, t_refresh)
         /\ applied' = <<now, t_refresh>>
         /\ now' = t_refresh
         /\ IF Falsy(client'.access_token)
            THEN /\ pc' = "raised"
                 /\ err' = "Token received from Keycloak did not contain 'access_token'"
            ELSE /\ pc' = "request"
                 /\ UNCHANGED err
    /\ UNCHANGED <<local, sent, entry, read>>
    /\ UNCHANGED outside

\* _refresh_access_token, lines 276-283: the POST carries self.refresh_token;
\* a non-2xx answer raises HTTPError.
_refresh_access_token_http_error ==
    /\ pc = "refresh"
    /\ calls' = [calls EXCEPT !.post = @ + 1]
    /\ sent' = [sent EXCEPT !.refresh_token = client.refresh_token]
    /\ pc' = "raised"
    /\ err' = "HTTPError"
    /\ UNCHANGED <<client, now, local, resp, entry, read, applied>>
    /\ UNCHANGED outside

\* _refresh_access_token, lines 276-287: a 2xx response; its token is applied
\* and the method returns, whatever the token holds.
_refresh_access_token ==
    /\ pc = "refresh"
    /\ \E token \in TokenResponses, t_refresh \in LaterReadings(now) :
         /\ calls' = [calls EXCEPT !.post = @ + 1]
         /\ sent' = [sent EXCEPT !.refresh_token = client.refresh_token]
         /\ resp' = <<token>>
         /\ client' = _set_variables_from_token(token, now, t_refresh)
         /\ applied' = <<now, t_refresh>>
         /\ now' = t_refresh
         /\ pc' = "request"
    /\ UNCHANGED <<local, err, entry, read>>
    /\ UNCHANGED outside

get_request_stale_header ==
    /\ pc = "request"
    /\ calls' = [calls EXCEPT !.get = @ + 1]
    /\ sent' = [sent EXCEPT !.bearer = entry.client.access_token]
    /\ \E ok \in BOOLEAN :
         IF ok
         THEN pc' = "done" /\ UNCHANGED err
         ELSE pc' = "raised" /\ err' = "HTTPError"
    /\ UNCHANGED <<client, now, local, resp, entry, read, applied>>
    /\ UNCHANGED outside

get_request_retry_login ==
    /\ pc = "request"
    /\ sent' = [sent EXCEPT !.bearer = client.access_token]
    /\ \E ok \in BOOLEAN :
         IF ok
         THEN /\ pc' = "done"
              /\ calls' = [calls EXCEPT !.get = @ + 1]
         ELSE /\ pc' = "login"
              /\ calls' = [calls EXCEPT !.get = @ + 1, !.login = @ + 1]
    /\ UNCHANGED <<client, now, local, resp, err, entry, read, applied>>
    /\ UNCHANGED outside

\* get, lines 124-130: the resource GET with "Bearer {self.access_token}";
\* raise_for_status() raises HTTPError on a non-2xx answer.
get_request ==
    /\ pc = "request"
    /\ calls' = [calls EXCEPT !.get = @ + 1]
    /\ sent' = [sent EXCEPT !.bearer = client.access_token]
    /\ \E ok \in BOOLEAN :
         IF ok
         THEN pc' = "done" /\ UNCHANGED err
         ELSE pc' = "raised" /\ err' = "HTTPError"
    /\ UNCHANGED <<client, now, local, resp, entry, read, applied>>
    /\ UNCHANGED outside

\* get() has returned or raised; the client is ready for the next call.
get_return ==
    /\ pc \in {"done", "raised"}
    /\ pc' = "idle"
    /\ local' = NoLocal
    /\ calls' = NoCalls
    /\ sent' = NoSent
    /\ resp' = << >>
    /\ err' = None
    /\ entry' = [client |-> client, now |-> now]
    /\ read' = -1
    /\ applied' = << >>
    /\ UNCHANGED <<client, now>>
    /\ UNCHANGED outside

Next ==
    \/ Tick
    \/ get
    \/ _authenticate_181
    \/ _authenticate_183
    \/ _authenticate_185
    \/ _authenticate_185r
    \/ _authenticate_187
    \/ login
    \/ _start_server_bind_fails
    \/ _start_server_to_listen_for_auth_code
    \/ _get_access_token_http_error
    \/ login_exchange
    \/ _refresh_access_token_http_error
    \/ _refresh_access_token
    \/ get_request
    \/ get_return

Spec == Init /\ [][Next]_vars

\* ---------------------------------------------------------------- UseCase
\* src/highwind/use_case.py and src/highwind/deployment_inference.py. Both
\* constructors begin with ClientFactory.client() (use_case.py line 18,
\* deployment_inference.py line 26), a name client_factory.py does not
\* define: as the code is, UseCase(id) raises AttributeError there and no
\* UseCase exists. tests/test_use_case.py construct a UseCase and call
\* run_inference on it, which takes a ClientFactory.client that returns the
\* shared client; what the two classes do when there is one is modelled as
\* well, entered by UseCase__init__with_client only.

\* The state of the caller at the start of a client.get call.
EnterGet ==
    /\ pc' = "authenticate"
    /\ local' = NoLocal
    /\ calls' = NoCalls
    /\ sent' = NoSent
    /\ resp' = << >>
    /\ err' = None
    /\ entry' = [client |-> client, now |-> now]
    /\ read' = -1
    /\ applied' = << >>

\* A JSON object with some of its keys missing.
JsonObject(keys, value) == [ k \in keys |-> value ]

\* What the API can answer to use_cases/mine/<id>: name and description
\* may be missing; deployment_details may be missing, null (<< >>) or an
\* object (in a one-element sequence) with or without a deployment_id.
UseCaseBodies ==
    { [ basic |-> JsonObject(keys, "text"), deployment_details |-> d ] :
        keys \in SUBSET {"name", "description"},
        d \in { <<"missing">>, << >>,
                <<"object", JsonObject({}, "d1")>>,
                <<"object", JsonObject({"deployment_id"}, "d1")>> } }

\* What the API can answer to deployments/mine/<id>/deployment/inference.
DeploymentBodies ==
    { JsonObject(keys, "text") : keys \in SUBSET {"name", "namespace"} }

\* UseCase._extract_basic_details, lines 39-41: self._raw_data["name"] and
\* ["description"] raise KeyError on a missing key.
_extract_basic_details(_raw_data) ==
    IF {"name", "description"} \subseteq DOMAIN _raw_data.basic
    THEN None ELSE "KeyError"

\* use_case.py, lines 44-46: _raw_data.get("deployment_details", {}) is {}
\* without the key; .get("deployment_id") raises AttributeError on null.
deployment_id(_raw_data) ==
    LET d == _raw_data.deployment_details
    IN  IF d = <<"missing">> THEN None
        ELSE IF d = << >> THEN "AttributeError"
        ELSE DictGet(d[2], "deployment_id", None)

\* UseCase.__init__, line 18, as the code is: ClientFactory has no attribute
\* client, the constructor raises AttributeError before any client.get and
\* no object exists.
UseCase__init__ ==
    /\ pc = "idle"
    /\ use_case = "none"
    /\ pc' = "raised"
    /\ err' = "AttributeError"
    /\ UNCHANGED <<local, calls, sent, resp, entry, read, applied>>
    /\ UNCHANGED <<client, now, use_case, inference, thread, listener, whole, factory, history, handler, login_vars, previous>>

\* UseCase.__init__, lines 18-19, where ClientFactory.client exists and
\* returns the shared client: self.client.get("use_cases/mine/<id>").
UseCase__init__with_client ==
    /\ pc = "idle"
    /\ use_case = "none"
    /\ use_case' = "use_case_get"
    /\ EnterGet
    /\ UNCHANGED <<client, now, inference, thread, listener, whole, factory, history, handler, login_vars, previous>>

\* UseCase.__init__, lines 21-22, after client.get has returned _raw_data:
\* _extract_basic_details, then _extract_deployment_details, lines 43-51.
\* Without a deployment_id deployment_inference stays None; with one,
\* DeploymentInference.__init__ (deployment_inference.py, lines 26-29) makes
\* a second client.get.
_extract_deployment_details ==
    /\ pc = "done"
    /\ use_case = "use_case_get"
    /\ \E _raw_data \in UseCaseBodies :
         IF _extract_basic_details(_raw_data) # None
         THEN /\ pc' = "raised"
              /\ err' = _extract_basic_details(_raw_data)
              /\ UNCHANGED <<use_case, local, calls, sent, resp, entry, read, applied>>
         ELSE IF deployment_id(_raw_data) = "AttributeError"
         THEN /\ pc' = "raised"
              /\ err' = "AttributeError"
              /\ UNCHANGED <<use_case, local, calls, sent, resp, entry, read, applied>>
         ELSE IF Falsy(deployment_id(_raw_data))
         THEN /\ use_case' = "undeployed"
              /\ pc' = "idle"
              /\ UNCHANGED <<local, calls, sent, resp, err, entry, read, applied>>
         ELSE /\ use_case' = "deployment_get"
              /\ EnterGet
    /\ UNCHANGED <<client, now, inference, thread, listener, whole, factory, history, handler, login_vars, previous>>

\* DeploymentInference.__init__, lines 30-34, after its client.get has
\* returned: _raw_data["name"] and ["namespace"] raise KeyError on a missing
\* key; otherwise the UseCase is constructed and holds a
\* deployment_inference.
DeploymentInference__init__ ==
    /\ pc = "done"
    /\ use_case = "deployment_get"
    /\ \E _raw_data \in DeploymentBodies :
         IF {"name", "namespace"} \subseteq DOMAIN _raw_data
         THEN /\ use_case' = "deployed"
              /\ pc' = "idle"
              /\ UNCHANGED err
         ELSE /\ pc' = "raised"
              /\ err' = "KeyError"
              /\ UNCHANGED use_case
    /\ UNCHANGED <<client, now, local, calls, sent, resp, entry, read,
                   applied, inference, thread, listener, whole, factory, history, handler, login_vars, previous>>

\* The constructor has raised (line 18, one of its client.get calls, or a
\* body without the keys it reads): no UseCase object.
UseCase__init__raises ==
    /\ pc = "raised"
    /\ use_case \in {"none", "use_case_get", "deployment_get"}
    /\ use_case' = "none"
    /\ pc' = "idle"
    /\ UNCHANGED <<client, now, local, calls, sent, resp, err, entry, read,
                   applied, inference, thread, listener, whole, factory, history, handler, login_vars, previous>>

\* UseCase.run_inference, lines 24-37: with a deployment_inference, one POST
\* whose Authorization header is self.client.access_token; nothing else of
\* the client is called. raise_for_status() raises HTTPError unless the
\* answer is 2xx.
run_inference ==
    /\ pc = "idle"
    /\ use_case = "deployed"
    /\ \E ok \in BOOLEAN :
         inference' = << [ authorization |-> client.access_token,
                           client |-> client,
                           now |-> now,
                           raised |-> IF ok THEN None ELSE "HTTPError" ] >>
    /\ UNCHANGED <<client, now, pc, local, calls, sent, resp, err, entry, read,
                   applied, use_case, thread, listener, whole, factory, history, handler, login_vars, previous>>

\* UseCase.run_inference, line 25, without a deployment_inference: nothing
\* is sent and None is returned.
run_inference_undeployed ==
    /\ pc = "idle"
    /\ use_case = "undeployed"
    /\ inference' = << >>
    /\ UNCHANGED <<client, now, pc, local, calls, sent, resp, err, entry, read,
                   applied, use_case, thread, listener, whole, factory, history, handler, login_vars, previous>>

NextUseCase ==
    \/ Tick
    \/ UseCase__init__
    \/ UseCase__init__with_client
    \/ _authenticate_181
    \/ _authenticate_183
    \/ _authenticate_185
    \/ _authenticate_185r
    \/ _authenticate_187
    \/ login
    \/ _start_server_bind_fails
    \/ _start_server_to_listen_for_auth_code
    \/ _get_access_token_http_error
    \/ login_exchange
    \/ _refresh_access_token_http_error
    \/ _refresh_access_token
    \/ get_request
    \/ _extract_deployment_details
    \/ DeploymentInference__init__
    \/ UseCase__init__raises
    \/ run_inference
    \/ run_inference_undeployed

\* The client the UseCase is built on: any access half, a refresh token that
\* is still good for a while.
InitUseCase ==
    /\ Init
    /\ client.refresh_token = "R0"
    /\ client.refresh_token_expires_in = MaxExpiresIn
    /\ client.refresh_token_expires_at = MaxNow \div TicksPerSec

SpecUseCase == InitUseCase /\ [][NextUseCase]_vars

\* ------------------------------------------------- two callers, one client
\* ClientFactory.get_client hands the same Client to every caller, and
\* client.py takes no lock anywhere: two threads inside get() interleave at
\* every read and every assignment of the credential. An expiry test is
\* three reads, of expires_in, of expires_at and of the clock, and another
\* caller's stores can fall between any two of them. Each caller makes one
\* get(); the token endpoint answers caller t with a fresh complete token.

one_caller == <<pc, local, calls, sent, resp, err, entry, read, applied, previous>>

ThreadAccessToken(t) == IF t = 1 THEN "A1" ELSE "A2"
ThreadRefreshToken(t) == IF t = 1 THEN "R1" ELSE "R2"
ThreadTokenResponses(t) ==
    { TokenDict(ThreadAccessToken(t), e, ThreadRefreshToken(t), MaxExpiresIn) :
        e \in {1, MaxExpiresIn} }

\* The credential the shared client was constructed with: the two callers
\* use get_by, so entry is still what Init made it.
Constructed == entry.client

\* Caller t reads the credential and moves on to to_pc: it has seen a mixed
\* credential if what the client holds at this moment was not written as a
\* unit, by the constructor or by one finished _set_variables_from_token.
Reading(t, to_pc) ==
    [thread EXCEPT ![t].pc = to_pc,
                   ![t].mixed = @ \/ (client \notin whole \cup {Constructed})]

\* The fields in the order _set_variables_from_token assigns them,
\* lines 373, 374, 375, 377, 378, 379.
AssignmentOrder ==
    << "access_token", "access_token_expires_in", "access_token_expires_at",
       "refresh_token", "refresh_token_expires_in", "refresh_token_expires_at" >>
AssignPc(k) == <<"assign373", "assign374", "assign375",
                 "assign377", "assign378", "assign379">>[k]
\* Where a caller is before the k-th assignment: at lines 375 and 379 the
\* right-hand side, _calculate_token_expiry, runs first.
BeforeAssign(k) == <<"assign373", "assign374", "calculate375",
                     "assign377", "assign378", "calculate379">>[k]

\* Client.get, line 122.
get_by(t) ==
    /\ thread[t].pc = "idle"
    /\ thread' = [thread EXCEPT ![t].pc = "authenticate"]
    /\ UNCHANGED <<client, now, listener, whole, use_case, inference, factory, history, handler>>
    /\ UNCHANGED one_caller
    /\ UNCHANGED login_vars

\* _authenticate, line 181.
_authenticate_181_by(t) ==
    /\ thread[t].pc = "authenticate"
    /\ thread' = Reading(t, IF Falsy(client.access_token)
                            THEN "login" ELSE "check183")
    /\ UNCHANGED <<client, now, listener, whole, use_case, inference, factory, history, handler>>
    /\ UNCHANGED one_caller
    /\ UNCHANGED login_vars

\* line 183, left operand: self.access_token is read again.
_authenticate_183_by(t) ==
    /\ thread[t].pc = "check183"
    /\ thread' = Reading(t, IF Falsy(client.access_token) THEN "in185" ELSE "in183")
    /\ UNCHANGED <<client, now, listener, whole, use_case, inference, factory, history, handler>>
    /\ UNCHANGED one_caller
    /\ UNCHANGED login_vars

\* Where _authenticate goes on when the expiry test begun at pc "in<line>"
\* has returned expired, lines 183-188: 183 is the test of line 183, 185 and
\* 185r the left and right operand of line 185, 187 the test of line 187,
\* after which _authenticate returns.
_authenticate_branch(line, expired) ==
    CASE line = "183"  -> IF expired THEN "in185" ELSE "request"
      [] line = "185"  -> IF expired THEN "in185r" ELSE "in187"
      [] line = "185r" -> IF expired THEN "in187" ELSE "refresh"
      [] OTHER         -> IF expired THEN "raised" ELSE "request"

AccessLines == {"183", "185"}
RefreshLines == {"185r", "187"}
InPc(line) == CASE line = "183" -> "in183" [] line = "185" -> "in185"
                [] line = "185r" -> "in185r" [] OTHER -> "in187"
AtPc(line) == CASE line = "183" -> "at183" [] line = "185" -> "at185"
                [] line = "185r" -> "at185r" [] OTHER -> "at187"
NowPc(line) == CASE line = "183" -> "now183" [] line = "185" -> "now185"
                 [] line = "185r" -> "now185r" [] OTHER -> "now187"

\* _is_access_token_expired, lines 194-195: self.access_token_expires_in is
\* read; 0 returns False.
_is_access_token_expired_194_by(t, line) ==
    /\ line \in AccessLines
    /\ thread[t].pc = InPc(line)
    /\ thread' = Reading(t, IF client.access_token_expires_in = 0
                            THEN _authenticate_branch(line, FALSE)
                            ELSE AtPc(line))
    /\ UNCHANGED <<client, now, listener, whole, use_case, inference, factory, history, handler>>
    /\ UNCHANGED one_caller
    /\ UNCHANGED login_vars

\* _is_access_token_expired, line 197: self.access_token_expires_at is read
\* and passed to _is_token_expired.
_is_access_token_expired_197_by(t, line) ==
    /\ line \in AccessLines
    /\ thread[t].pc = AtPc(line)
    /\ thread' = [Reading(t, NowPc(line)) EXCEPT
                    ![t].timestamp = client.access_token_expires_at]
    /\ UNCHANGED <<client, now, listener, whole, use_case, inference, factory, history, handler>>
    /\ UNCHANGED one_caller
    /\ UNCHANGED login_vars

\* _is_refresh_token_expired, lines 203-204: self.refresh_token_expires_in is
\* read; 0 returns False.
_is_refresh_token_expired_203_by(t, line) ==
    /\ line \in RefreshLines
    /\ thread[t].pc = InPc(line)
    /\ thread' = Reading(t, IF client.refresh_token_expires_in = 0
                            THEN _authenticate_branch(line, FALSE)
                            ELSE AtPc(line))
    /\ UNCHANGED <<client, now, listener, whole, use_case, inference, factory, history, handler>>
    /\ UNCHANGED one_caller
    /\ UNCHANGED login_vars

\* _is_refresh_token_expired, line 206: self.refresh_token_expires_at is read
\* and passed to _is_token_expired.
_is_refresh_token_expired_206_by(t, line) ==
    /\ line \in RefreshLines
    /\ thread[t].pc = AtPc(line)
    /\ thread' = [Reading(t, NowPc(line)) EXCEPT
                    ![t].timestamp = client.refresh_token_expires_at]
    /\ UNCHANGED <<client, now, listener, whole, use_case, inference, factory, history, handler>>
    /\ UNCHANGED one_caller
    /\ UNCHANGED login_vars

\* _is_token_expired, lines 209-217, on the timestamp it was passed: the
\* clock is read now, after the fields were.
_is_token_expired_by(t, line) ==
    /\ line \in AccessLines \cup RefreshLines
    /\ thread[t].pc = NowPc(line)
    /\ thread' = [thread EXCEPT
          ![t].pc = _authenticate_branch(
                        line, _is_token_expired(thread[t].timestamp, now)),
          ![t].timestamp = NoTimestamp]
    /\ UNCHANGED <<client, now, listener, whole, use_case, inference, factory, history, handler>>
    /\ UNCHANGED one_caller
    /\ UNCHANGED login_vars

\* login, lines 151-157: the browser is opened and HTTPServer(...) binds the
\* callback port, which fails with OSError while another caller's server
\* holds it.
login_by(t) ==
    /\ thread[t].pc = "login"
    /\ IF listener = 0
       THEN /\ listener' = t
            /\ thread' = [thread EXCEPT ![t].pc = "listen", ![t].via = "login"]
       ELSE /\ thread' = [thread EXCEPT ![t].pc = "raised", ![t].via = "login"]
            /\ UNCHANGED listener
    /\ UNCHANGED <<client, now, whole, use_case, inference, factory, history, handler>>
    /\ UNCHANGED one_caller
    /\ UNCHANGED login_vars

\* _start_server_to_listen_for_auth_code, lines 235-237: one request is
\* handled. Nothing closes the server: when the function returns, its only
\* reference is gone and the port is free; when reading server.auth_code
\* raises AttributeError (do_GET set nothing), the exception's traceback
\* keeps the frame and with it the bound server.
_start_server_to_listen_for_auth_code_by(t) ==
    /\ thread[t].pc = "listen"
    /\ \E request \in CallbackRequests :
         IF handle_one_request(request) # << >>
         THEN /\ thread' = [thread EXCEPT ![t].pc = "exchange"]
              /\ listener' = 0
         ELSE /\ thread' = [thread EXCEPT ![t].pc = "raised"]
              /\ UNCHANGED listener
    /\ UNCHANGED <<client, now, whole, use_case, inference, factory, history, handler>>
    /\ UNCHANGED one_caller
    /\ UNCHANGED login_vars

\* The caller of get() lets go of the AttributeError of line 237: the frame
\* of _start_server_to_listen_for_auth_code and its server (line 229) are
\* collected and the port is free again.
exception_released_by(t) ==
    /\ thread[t].pc = "raised"
    /\ listener = t
    /\ listener' = 0
    /\ UNCHANGED <<client, now, thread, whole, use_case, inference, factory, history, handler>>
    /\ UNCHANGED one_caller
    /\ UNCHANGED login_vars

\* login, line 159, _get_access_token: the POST and its 2xx answer.
\* both_logged_in remembers that every other caller had, like this one, been
\* through the browser, the listener and this POST and had stored nothing yet.
_get_access_token_by(t) ==
    /\ thread[t].pc = "exchange"
    /\ \E token \in ThreadTokenResponses(t) :
         LET together == \A u \in Callers \ {t} :
                             /\ thread[u].pc = BeforeAssign(1)
                             /\ thread[u].via = "login"
             answered == [thread EXCEPT ![t].pc = BeforeAssign(1),
                                        ![t].token = <<token>>]
         IN  thread' = [u \in Callers |->
                          [answered[u] EXCEPT !.both_logged_in = @ \/ together]]
    /\ UNCHANGED <<client, now, listener, whole, use_case, inference, factory, history, handler>>
    /\ UNCHANGED one_caller
    /\ UNCHANGED login_vars

\* A variant of the step below in which building the request takes the
\* refresh token out of the client, so that no second caller can post it.
_refresh_access_token_send_by_taking_the_token(t) ==
    /\ thread[t].pc = "refresh"
    /\ thread' = [Reading(t, "refresh_wait") EXCEPT
                    ![t].sent = client.refresh_token, ![t].via = "refresh"]
    /\ client' = [client EXCEPT !.refresh_token = None]
    /\ UNCHANGED <<now, listener, whole, use_case, inference, factory, history, handler>>
    /\ UNCHANGED one_caller
    /\ UNCHANGED login_vars

\* _refresh_access_token, lines 276-282: the POST carries self.refresh_token
\* as it is when the request is built.
_refresh_access_token_send_by(t) ==
    /\ thread[t].pc = "refresh"
    /\ thread' = [Reading(t, "refresh_wait") EXCEPT
                    ![t].sent = client.refresh_token, ![t].via = "refresh"]
    /\ UNCHANGED <<client, now, listener, whole, use_case, inference, factory, history, handler>>
    /\ UNCHANGED one_caller
    /\ UNCHANGED login_vars

\* _refresh_access_token, lines 282-285: the 2xx answer and its JSON body.
_refresh_access_token_by(t) ==
    /\ thread[t].pc = "refresh_wait"
    /\ \E token \in ThreadTokenResponses(t) :
         thread' = [thread EXCEPT ![t].pc = BeforeAssign(1), ![t].token = <<token>>]
    /\ UNCHANGED <<client, now, listener, whole, use_case, inference, factory, history, handler>>
    /\ UNCHANGED one_caller
    /\ UNCHANGED login_vars

\* lines 159 and 283: raise_for_status() raises HTTPError.
raise_for_status_by(t) ==
    /\ thread[t].pc \in {"exchange", "refresh_wait"}
    /\ thread' = [thread EXCEPT ![t].pc = "raised"]
    /\ UNCHANGED <<client, now, listener, whole, use_case, inference, factory, history, handler>>
    /\ UNCHANGED one_caller
    /\ UNCHANGED login_vars

\* _calculate_token_expiry, lines 381-384, called on the right-hand side of
\* line 375 (k = 3) or 379 (k = 6): datetime.now() is read and the value
\* returned; the caller has not stored it yet.
_calculate_token_expiry_by(t, k) ==
    /\ k \in {3, 6}
    /\ thread[t].pc = BeforeAssign(k)
    /\ thread' = [thread EXCEPT
                    ![t].pc = AssignPc(k),
                    ![t].t_access = IF k = 3 THEN now ELSE @,
                    ![t].t_refresh = IF k = 6 THEN now ELSE @]
    /\ UNCHANGED <<client, now, listener, whole, use_case, inference, factory, history, handler>>
    /\ UNCHANGED one_caller
    /\ UNCHANGED login_vars

\* _set_variables_from_token, lines 373-379: the k-th of its six assignments,
\* each one a separate store into the shared object; the expiry stored at
\* lines 375 and 379 was calculated from the clock as it was read before. A
\* finished call has written one whole credential and its locals are gone.
_set_variables_from_token_by(t, k) ==
    /\ thread[t].pc = AssignPc(k)
    /\ LET token == thread[t].token[1]
           field == AssignmentOrder[k]
           written == _set_variables_from_token(
                          token, thread[t].t_access, thread[t].t_refresh)
       IN  /\ client' = [client EXCEPT ![field] = written[field]]
           /\ thread' = [thread EXCEPT
                  ![t].pc = IF k < 6 THEN BeforeAssign(k + 1)
                            ELSE IF thread[t].via = "login"
                                 THEN "check163" ELSE "request",
                  ![t].token = IF k < 6 THEN @ ELSE << >>,
                  ![t].t_access = IF k < 6 THEN @ ELSE -1,
                  ![t].t_refresh = IF k < 6 THEN @ ELSE -1]
           /\ whole' = IF k < 6 THEN whole ELSE whole \cup {written}
    /\ UNCHANGED <<now, listener, use_case, inference, factory, history, handler>>
    /\ UNCHANGED one_caller
    /\ UNCHANGED login_vars

\* login, lines 163-167: if not self.access_token: raise
login_check_by(t) ==
    /\ thread[t].pc = "check163"
    /\ thread' = Reading(t, IF Falsy(client.access_token)
                            THEN "raised" ELSE "request")
    /\ UNCHANGED <<client, now, listener, whole, use_case, inference, factory, history, handler>>
    /\ UNCHANGED one_caller
    /\ UNCHANGED login_vars

\* Client.get, line 125: the header is built from self.access_token as it is
\* at this moment.
get_headers_by(t) ==
    /\ thread[t].pc = "request"
    /\ thread' = [Reading(t, "send") EXCEPT ![t].sent = client.access_token]
    /\ UNCHANGED <<client, now, listener, whole, use_case, inference, factory, history, handler>>
    /\ UNCHANGED one_caller
    /\ UNCHANGED login_vars

\* Client.get, lines 127-130: the GET goes out with the header built before;
\* a 2xx answer is returned, on any other raise_for_status() raises
\* HTTPError.
get_request_by(t) ==
    /\ thread[t].pc = "send"
    /\ \E ok \in BOOLEAN :
         thread' = [thread EXCEPT ![t].pc = IF ok THEN "done" ELSE "raised"]
    /\ UNCHANGED <<client, now, listener, whole, use_case, inference, factory, history, handler>>
    /\ UNCHANGED one_caller
    /\ UNCHANGED login_vars

NextShared ==
    \/ Tick
    \/ \E t \in Callers :
         \/ get_by(t)
         \/ _authenticate_181_by(t)
         \/ _authenticate_183_by(t)
         \/ \E line \in AccessLines : _is_access_token_expired_194_by(t, line)
         \/ \E line \in AccessLines : _is_access_token_expired_197_by(t, line)
         \/ \E line \in RefreshLines : _is_refresh_token_expired_203_by(t, line)
         \/ \E line \in RefreshLines : _is_refresh_token_expired_206_by(t, line)
         \/ \E line \in AccessLines \cup RefreshLines : _is_token_expired_by(t, line)
         \/ login_by(t)
         \/ _start_server_to_listen_for_auth_code_by(t)
         \/ exception_released_by(t)
         \/ _get_access_token_by(t)
         \/ _refresh_access_token_send_by(t)
         \/ _refresh_access_token_by(t)
         \/ raise_for_status_by(t)
         \/ \E k \in {3, 6} : _calculate_token_expiry_by(t, k)
         \/ \E k \in 1 .. 6 : _set_variables_from_token_by(t, k)
         \/ login_check_by(t)
         \/ get_headers_by(t)
         \/ get_request_by(t)

\* The shared client: any access half, a refresh token still good for a
\* while. The clock starts at 0 and Tick takes it to every later reading
\* before either caller has begun.
InitShared ==
    /\ Init
    /\ now = 0
    /\ client.refresh_token = "R0"
    /\ client.refresh_token_expires_in = MaxExpiresIn
    /\ client.refresh_token_expires_at = MaxNow \div TicksPerSec

SpecShared == InitShared /\ [][NextShared]_vars

\* ------------------------------------------- ClientFactory and GradioApp
\* src/highwind/client_factory.py and src/highwind/gradio_app.py. Both pass
\* credential values through without computing on them, so here each value
\* is the text it would have in a session; None is the absent value.

MaxCalls == 3

\* The keyword arguments of get_client at their defaults, lines 16-22.
DefaultArguments ==
    [ access_token             |-> None,
      access_token_expires_in  |-> "0",
      access_token_expires_at  |-> None,
      refresh_token            |-> None,
      refresh_token_expires_in |-> "0",
      refresh_token_expires_at |-> None ]

\* What callers pass to get_client: nothing, or a known access token.
FactoryArguments ==
    { DefaultArguments, [DefaultArguments EXCEPT !.access_token = "T1"] }

\* request.session.get(key, None), lines 58-72.
SessionGet(session, key) == DictGet(session, key, None)

\* A session as a dictionary: a key whose value is given as None is missing.
SessionDict(values) ==
    [ k \in { key \in DOMAIN values : values[key] # None } |-> values[k] ]

\* The requests setup_with_request is given: without SessionMiddleware
\* reading request.session raises AssertionError; with it the session may
\* lack the access token, hold an empty one, and lack any of the other keys.
Requests ==
    { [available |-> FALSE, session |-> SessionDict(<< >>)] }
    \cup
    { [ available |-> TRUE,
        session |-> SessionDict(
          [ access_token             |-> a,
            access_token_expires_in  |-> e,
            access_token_expires_at  |-> IF e = None THEN None ELSE "2024-01-01T00:05:00",
            refresh_token            |-> r,
            refresh_token_expires_in |-> IF r = None THEN None ELSE "1200",
            refresh_token_expires_at |-> IF r = None THEN None ELSE "2024-01-01T00:20:00" ]) ] :
        a \in {None, "", "S1"}, e \in {None, "300"}, r \in {None, "SR1"} }

\* Client.__init__, lines 101-106: the six fields are the six arguments.
Client__init__(arguments) ==
    [ access_token             |-> arguments.access_token,
      access_token_expires_in  |-> arguments.access_token_expires_in,
      access_token_expires_at  |-> arguments.access_token_expires_at,
      refresh_token            |-> arguments.refresh_token,
      refresh_token_expires_in |-> arguments.refresh_token_expires_in,
      refresh_token_expires_at |-> arguments.refresh_token_expires_at ]

get_client_always_recreates(f, force_recreate, arguments) ==
    LET objects == Append(f.objects, Client__init__(arguments))
    IN  [client_singleton |-> Len(objects), objects |-> objects]

get_client_updating_existing(f, force_recreate, arguments) ==
    IF f.client_singleton = 0 \/ force_recreate
    THEN LET objects == Append(f.objects, Client__init__(arguments))
         IN  [client_singleton |-> Len(objects), objects |-> objects]
    ELSE [f EXCEPT !.objects[f.client_singleton] = Client__init__(arguments)]

\* ClientFactory.get_client, lines 54-64: the factory after the call; the
\* call returns its client_singleton.
get_client(f, force_recreate, arguments) ==
    IF f.client_singleton = 0 \/ force_recreate
    THEN LET objects == Append(f.objects, Client__init__(arguments))
         IN  [client_singleton |-> Len(objects), objects |-> objects]
    ELSE f

\* The arguments setup_with_request passes on, lines 82-90.
SessionArguments(session) ==
    [ access_token             |-> SessionGet(session, "access_token"),
      access_token_expires_in  |-> SessionGet(session, "access_token_expires_in"),
      access_token_expires_at  |-> SessionGet(session, "access_token_expires_at"),
      refresh_token            |-> SessionGet(session, "refresh_token"),
      refresh_token_expires_in |-> SessionGet(session, "refresh_token_expires_in"),
      refresh_token_expires_at |-> SessionGet(session, "refresh_token_expires_at") ]

setup_with_request_without_force(f, request) ==
    IF ~request.available
    THEN [factory |-> f, result |-> 0]
    ELSE IF Falsy(SessionGet(request.session, "access_token"))
         THEN [factory |-> f, result |-> 0]
         ELSE LET g == get_client(f, FALSE, SessionArguments(request.session))
              IN  [factory |-> g, result |-> g.client_singleton]

\* GradioApp.setup_with_request, lines 57-90: the factory after the call and
\* what the call returns (0 for None).
setup_with_request(f, request) ==
    IF ~request.available
    THEN [factory |-> f, result |-> 0]
    ELSE IF Falsy(SessionGet(request.session, "access_token"))
         THEN [factory |-> f, result |-> 0]
         ELSE LET g == get_client(f, TRUE, SessionArguments(request.session))
              IN  [factory |-> g, result |-> g.client_singleton]

\* SpecFactory is one caller making its calls one after another: each call
\* has returned before the next begins, so a call is one step. Handlers that
\* run at the same time are in SpecHandlers below.

\* A caller calls ClientFactory.get_client.
ClientFactory_get_client ==
    /\ Len(history) < MaxCalls
    /\ \E force_recreate \in BOOLEAN, arguments \in FactoryArguments :
         /\ factory' = get_client(factory, force_recreate, arguments)
         /\ history' = Append(history,
              [ op |-> "get_client", force_recreate |-> force_recreate,
                arguments |-> arguments,
                request |-> [available |-> FALSE, session |-> SessionDict(<< >>)],
                before |-> factory.client_singleton,
                after |-> factory'.client_singleton,
                constructed |-> Len(factory'.objects) - Len(factory.objects),
                result |-> factory'.client_singleton ])
    /\ UNCHANGED <<client, now, use_case, inference, thread, listener, whole, handler>>
    /\ UNCHANGED one_caller
    /\ UNCHANGED login_vars

\* The caller calls GradioApp.setup_with_request.
GradioApp_setup_with_request ==
    /\ Len(history) < MaxCalls
    /\ \E request \in Requests :
         LET outcome == setup_with_request(factory, request)
         IN  /\ factory' = outcome.factory
             /\ history' = Append(history,
                  [ op |-> "setup_with_request", force_recreate |-> TRUE,
                    arguments |-> SessionArguments(request.session),
                    request |-> request,
                    before |-> factory.client_singleton,
                    after |-> factory'.client_singleton,
                    constructed |-> Len(factory'.objects) - Len(factory.objects),
                    result |-> outcome.result ])
    /\ UNCHANGED <<client, now, use_case, inference, thread, listener, whole, handler>>
    /\ UNCHANGED one_caller
    /\ UNCHANGED login_vars

NextFactory ==
    \/ ClientFactory_get_client
    \/ GradioApp_setup_with_request

\* The factory specification leaves the client of the other specifications
\* alone: one seed suffices.
InitFactory ==
    /\ Init
    /\ now = 0
    /\ client = [ access_token |-> None, access_token_expires_in |-> 0,
                  access_token_expires_at |-> NoTimestamp,
                  refresh_token |-> None, refresh_token_expires_in |-> 0,
                  refresh_token_expires_at |-> NoTimestamp ]

SpecFactory == InitFactory /\ [][NextFactory]_vars

\* ------------------------------------------- two handlers, one ClientFactory
\* client_singleton is a class attribute (client_factory.py, line 11) and
\* neither file takes a lock: two request handlers running at the same time
\* interleave at the test of line 54, the construction, the store of line 55
\* and the read of line 64. Each handler serves one request: it calls
\* GradioApp.setup_with_request(request) and then ClientFactory.get_client().

SessionAccessToken(h) == IF h = 1 THEN "S1" ELSE "S2"
SessionRefreshToken(h) == IF h = 1 THEN "SR1" ELSE "SR2"

\* The request of handler h: without SessionMiddleware, or with a session
\* that lacks the access token, holds an empty one, or holds h's tokens.
HandlerRequests(h) ==
    { [available |-> FALSE, session |-> SessionDict(<< >>)] }
    \cup
    { [ available |-> TRUE,
        session |-> SessionDict(
          [ access_token             |-> a,
            access_token_expires_in  |-> IF Falsy(a) THEN None ELSE "300",
            access_token_expires_at  |-> IF Falsy(a) THEN None ELSE "2024-01-01T00:05:00",
            refresh_token            |-> IF Falsy(a) THEN None ELSE SessionRefreshToken(h),
            refresh_token_expires_in |-> IF Falsy(a) THEN None ELSE "1200",
            refresh_token_expires_at |-> IF Falsy(a) THEN None ELSE "2024-01-01T00:20:00" ]) ] :
        a \in {None, "", SessionAccessToken(h)} }

\* GradioApp.setup_with_request, lines 57-82: the session is read; without
\* a session or an access token the call returns None, otherwise it enters
\* ClientFactory.get_client(force_recreate=True, ...).
setup_with_request_by(h) ==
    /\ handler[h].pc = "idle"
    /\ \E request \in HandlerRequests(h) :
         handler' = [handler EXCEPT
            ![h].request = <<request>>,
            ![h].pc = IF ~request.available
                         \/ Falsy(SessionGet(request.session, "access_token"))
                      THEN "setup_returned" ELSE "line54",
            ![h].call = IF ~request.available
                           \/ Falsy(SessionGet(request.session, "access_token"))
                        THEN << >>
                        ELSE << [ op |-> "setup_with_request",
                                  force_recreate |-> TRUE,
                                  arguments |-> SessionArguments(request.session) ] >>]
    /\ UNCHANGED <<client, now, use_case, inference, thread, listener, whole, factory, history>>
    /\ UNCHANGED one_caller
    /\ UNCHANGED login_vars

\* The handler, after setup_with_request has returned, calls
\* ClientFactory.get_client() with no arguments.
get_client_by(h) ==
    /\ handler[h].pc = "setup_returned"
    /\ handler' = [handler EXCEPT
          ![h].pc = "line54",
          ![h].call = << [ op |-> "get_client", force_recreate |-> FALSE,
                           arguments |-> DefaultArguments ] >>]
    /\ UNCHANGED <<client, now, use_case, inference, thread, listener, whole, factory, history>>
    /\ UNCHANGED one_caller
    /\ UNCHANGED login_vars

\* ClientFactory.get_client, line 54: the test of client_singleton.
get_client_54_by(h) ==
    /\ handler[h].pc = "line54"
    /\ handler' = [handler EXCEPT
          ![h].pc = IF factory.client_singleton = 0 \/ handler[h].call[1].force_recreate
                    THEN "construct" ELSE "line64"]
    /\ UNCHANGED <<client, now, use_case, inference, thread, listener, whole, factory, history>>
    /\ UNCHANGED one_caller
    /\ UNCHANGED login_vars

\* lines 55-62, right-hand side: Client(...) is constructed; nothing refers
\* to it yet but the handler.
Client__init___by(h) ==
    /\ handler[h].pc = "construct"
    /\ factory' = [factory EXCEPT
          !.objects = Append(@, Client__init__(handler[h].call[1].arguments))]
    /\ handler' = [handler EXCEPT ![h].pc = "line55",
                                  ![h].made = Len(factory.objects) + 1]
    /\ UNCHANGED <<client, now, use_case, inference, thread, listener, whole, history>>
    /\ UNCHANGED one_caller
    /\ UNCHANGED login_vars

\* line 55: cls.client_singleton = the Client just constructed.
get_client_55_by(h) ==
    /\ handler[h].pc = "line55"
    /\ factory' = [factory EXCEPT !.client_singleton = handler[h].made]
    /\ handler' = [handler EXCEPT ![h].pc = "line64"]
    /\ UNCHANGED <<client, now, use_case, inference, thread, listener, whole, history>>
    /\ UNCHANGED one_caller
    /\ UNCHANGED login_vars

\* line 64: return cls.client_singleton, as it is at this moment; with it
\* setup_with_request returns (gradio_app.py, line 82), or the handler has
\* its client.
get_client_64_by(h) ==
    /\ handler[h].pc = "line64"
    /\ handler' = [handler EXCEPT
          ![h].pc = IF handler[h].call[1].op = "setup_with_request"
                    THEN "setup_returned" ELSE "returned",
          ![h].setup_result = IF handler[h].call[1].op = "setup_with_request"
                              THEN factory.client_singleton ELSE @,
          ![h].result = IF handler[h].call[1].op = "setup_with_request"
                        THEN @ ELSE factory.client_singleton,
          ![h].call = << >>]
    /\ UNCHANGED <<client, now, use_case, inference, thread, listener, whole, factory, history>>
    /\ UNCHANGED one_caller
    /\ UNCHANGED login_vars

NextHandlers ==
    \E h \in Callers :
      \/ setup_with_request_by(h)
      \/ get_client_by(h)
      \/ get_client_54_by(h)
      \/ Client__init___by(h)
      \/ get_client_55_by(h)
      \/ get_client_64_by(h)

SpecHandlers == InitFactory /\ [][NextHandlers]_vars

\* ------------------------------------- two callers, the client made anew
\* The two callers of the shared client, and ClientFactory.get_client called
\* with force_recreate=True once both have returned from get(): the Client
\* both go on to share is a new one.

\* How often the factory is asked for a new Client.
MaxRecreations == 1

\* What the shared client is constructed from: no access token, or one that
\* expired at second 0; in both cases a refresh token still good for a while.
RaceArguments ==
    { c \in Credentials :
        /\ c.refresh_token = "R0"
        /\ c.refresh_token_expires_in = MaxExpiresIn
        /\ c.refresh_token_expires_at = MaxNow \div TicksPerSec
        /\ \/ /\ c.access_token = None
              /\ c.access_token_expires_in = 0
              /\ c.access_token_expires_at = NoTimestamp
           \/ /\ c.access_token = "A0"
              /\ c.access_token_expires_in = MaxExpiresIn
              /\ c.access_token_expires_at = 0 }

\* What get_client is given when the Client is made anew: the credential
\* whose access token has expired.
RecreateArguments == { c \in RaceArguments : ~Falsy(c.access_token) }

\* ClientFactory.get_client, lines 54-64, with force_recreate=True, called
\* between two rounds of the callers, when both have left get(): a new Client
\* is constructed and stored in client_singleton, and each caller's next
\* get() is made on it. (A call made while a caller is inside get() leaves
\* that caller with the Client it holds; handlers that call get_client at
\* the same time are in SpecHandlers.)
get_client_force_recreate ==
    /\ \A t \in Callers : thread[t].pc \in {"done", "raised"}
    /\ listener = 0
    /\ Len(history) < MaxRecreations
    /\ \E arguments \in RecreateArguments :
         /\ factory' = get_client(factory, TRUE, arguments)
         /\ history' = Append(history,
              [ op |-> "get_client", force_recreate |-> TRUE,
                arguments |-> arguments,
                request |-> [available |-> FALSE, session |-> SessionDict(<< >>)],
                before |-> factory.client_singleton,
                after |-> factory'.client_singleton,
                constructed |-> Len(factory'.objects) - Len(factory.objects),
                result |-> factory'.client_singleton ])
         /\ client' = factory'.objects[factory'.client_singleton]
         /\ entry' = [entry EXCEPT !.client = client']
    /\ thread' = [t \in Callers |->
                    [NoThread EXCEPT !.both_logged_in = thread[t].both_logged_in]]
    /\ whole' = {}
    /\ UNCHANGED <<now, listener, use_case, inference, handler>>
    /\ UNCHANGED <<pc, local, calls, sent, resp, err, read, applied, previous>>
    /\ UNCHANGED login_vars

NextRaces ==
    \/ NextShared
    \/ get_client_force_recreate

InitRaces ==
    /\ InitShared
    /\ client \in RaceArguments

SpecRaces == InitRaces /\ [][NextRaces]_vars

\* ------------------------------------------------------ one login attempt
\* Client.login, lines 151-169, step by step, with the browser and whatever
\* else connects to the callback port as the environment. login() is public
\* and can be called on any credential.

MaxAttempts == 2

\* os.urandom(40) and uuid.uuid4() are taken to give a value never given
\* before; 0 is no value.
RandomValues == 1 .. MaxAttempts

\* _generate_pkce, lines 339-343: the challenge is the SHA-256 digest of the
\* verifier, a function that is one-to-one on the values used here and that
\* nobody can invert.
S256(code_verifier) == <<"S256", code_verifier>>

\* What can connect to the callback port: the browser redirected by
\* Keycloak with this attempt's state, or any other local request, with any
\* state or none.
LoginCallbackRequests == RequestsWith({0} \cup RandomValues)

\* The 2xx answers of the token endpoint to the code exchange.
LoginTokenResponses ==
    { TokenDict(a, MaxExpiresIn, "R1", MaxExpiresIn) : a \in {None, "A1"} }

\* login() returns or raises: its locals are gone, and so is its server once
\* nothing holds the frame any more (until then the port is one that
\* HTTPServer_bind_fails finds taken); what the
\* attempt did is kept for inspection.
EndAttempt(outcome, posted, token, readings) ==
    /\ attempt' = NoAttempt
    /\ inbox' = << >>
    /\ last' = << [ n |-> Len(issued),
                    state |-> attempt.state,
                    code_challenge |-> attempt.code_challenge,
                    shown |-> attempt.shown,
                    auth_code |-> attempt.auth_code,
                    callback_state |-> attempt.callback_state,
                    posted |-> posted,
                    token |-> token,
                    applied |-> readings,
                    outcome |-> outcome ] >>

_generate_auth_url_reusing_pkce ==
    /\ attempt.pc = "none"
    /\ Len(issued) < MaxAttempts
    /\ \E v \in RandomValues \ { issued[i].code_verifier : i \in 1 .. Len(issued) },
          u \in RandomValues \ { issued[i].state : i \in 1 .. Len(issued) } :
         LET code_verifier == IF Len(issued) = 0 THEN v ELSE issued[1].code_verifier
         IN  /\ attempt' = [NoAttempt EXCEPT !.pc = "generated",
                              !.code_verifier = code_verifier,
                              !.code_challenge = S256(code_verifier),
                              !.state = u]
             /\ issued' = Append(issued, [ code_verifier |-> code_verifier,
                                           code_challenge |-> S256(code_verifier),
                                           state |-> u ])
    /\ UNCHANGED <<client, now, inbox, last>>
    /\ UNCHANGED one_caller
    /\ UNCHANGED <<use_case, inference, thread, listener, whole, factory, history, handler>>

\* login, line 151: _generate_auth_url (lines 310-325) and _generate_pkce
\* (lines 336-345). login keeps auth_url and code_verifier; state and
\* code_challenge exist only inside auth_url.
_generate_auth_url ==
    /\ attempt.pc = "none"
    /\ Len(issued) < MaxAttempts
    /\ \E v \in RandomValues \ { issued[i].code_verifier : i \in 1 .. Len(issued) },
          u \in RandomValues \ { issued[i].state : i \in 1 .. Len(issued) } :
         /\ attempt' = [NoAttempt EXCEPT !.pc = "generated",
                          !.code_verifier = v,
                          !.code_challenge = S256(v),
                          !.state = u]
         /\ issued' = Append(issued, [ code_verifier |-> v,
                                       code_challenge |-> S256(v),
                                       state |-> u ])
    /\ UNCHANGED <<client, now, inbox, last>>
    /\ UNCHANGED one_caller
    /\ UNCHANGED <<use_case, inference, thread, listener, whole, factory, history, handler>>

\* login, lines 152-155: the URL is printed and, with
\* AUTOMATICALLY_OPEN_BROWSER, opened in the browser.
_print_auth_url ==
    /\ attempt.pc = "generated"
    /\ attempt' = [attempt EXCEPT !.pc = "shown", !.shown = TRUE]
    /\ UNCHANGED <<client, now, issued, inbox, last>>
    /\ UNCHANGED one_caller
    /\ UNCHANGED <<use_case, inference, thread, listener, whole, factory, history, handler>>

\* The browser follows the shown URL, Keycloak redirects it to the callback
\* port, and nothing listens there yet: the connection is refused.
redirect_refused ==
    /\ attempt.shown
    /\ ~attempt.bound
    /\ attempt.pc = "shown"
    /\ ~attempt.refused
    /\ attempt' = [attempt EXCEPT !.refused = TRUE]
    /\ UNCHANGED <<client, now, issued, inbox, last>>
    /\ UNCHANGED one_caller
    /\ UNCHANGED <<use_case, inference, thread, listener, whole, factory, history, handler>>

\* login, line 157, _start_server_to_listen_for_auth_code, lines 229-233:
\* HTTPServer(..., bind_and_activate=True) binds the port and listens.
HTTPServer_bind ==
    /\ attempt.pc = "shown"
    /\ attempt' = [attempt EXCEPT !.pc = "bound", !.bound = TRUE]
    /\ UNCHANGED <<client, now, issued, inbox, last>>
    /\ UNCHANGED one_caller
    /\ UNCHANGED <<use_case, inference, thread, listener, whole, factory, history, handler>>

\* The same, with the port taken by another process: OSError.
HTTPServer_bind_fails ==
    /\ attempt.pc = "shown"
    /\ EndAttempt("OSError", << >>, << >>, << >>)
    /\ UNCHANGED <<client, now, issued>>
    /\ UNCHANGED one_caller
    /\ UNCHANGED <<use_case, inference, thread, listener, whole, factory, history, handler>>

\* A connection reaches the bound port and waits to be handled.
connection_arrives ==
    /\ attempt.bound
    /\ Len(inbox) = 0
    /\ \E request \in LoginCallbackRequests : inbox' = <<request>>
    /\ UNCHANGED <<client, now, attempt, issued, last>>
    /\ UNCHANGED one_caller
    /\ UNCHANGED <<use_case, inference, thread, listener, whole, factory, history, handler>>

handle_request_validating_state ==
    /\ attempt.pc = "bound"
    /\ Len(inbox) = 1
    /\ IF /\ handle_one_request(inbox[1]) # << >>
          /\ handle_one_request(inbox[1])[1].state = attempt.state
       THEN /\ attempt' = [attempt EXCEPT !.pc = "exchange", !.bound = FALSE,
                             !.auth_code = handle_one_request(inbox[1])[1].auth_code,
                             !.callback_state = handle_one_request(inbox[1])[1].state]
            /\ inbox' = << >>
            /\ UNCHANGED last
       ELSE EndAttempt("AttributeError", << >>, << >>, << >>)
    /\ UNCHANGED <<client, now, issued>>
    /\ UNCHANGED one_caller
    /\ UNCHANGED <<use_case, inference, thread, listener, whole, factory, history, handler>>

\* _start_server_to_listen_for_auth_code, lines 235-237, with do_GET, lines
\* 25-54: one request is handled; a GET of /callback with a well-formed
\* query leaves its code and state on the server, which are returned; login keeps the code and drops the
\* state (line 157, _state).
handle_request ==
    /\ attempt.pc = "bound"
    /\ Len(inbox) = 1
    /\ IF handle_one_request(inbox[1]) # << >>
       THEN /\ attempt' = [attempt EXCEPT !.pc = "exchange", !.bound = FALSE,
                             !.auth_code = handle_one_request(inbox[1])[1].auth_code,
                             !.callback_state = handle_one_request(inbox[1])[1].state]
            /\ inbox' = << >>
            /\ UNCHANGED last
       ELSE EndAttempt("AttributeError", << >>, << >>, << >>)
    /\ UNCHANGED <<client, now, issued>>
    /\ UNCHANGED one_caller
    /\ UNCHANGED <<use_case, inference, thread, listener, whole, factory, history, handler>>

\* login, line 159, _get_access_token, lines 259-267: the POST carries the
\* code and login's code_verifier; raise_for_status() raises HTTPError.
_get_access_token_raises ==
    /\ attempt.pc = "exchange"
    /\ EndAttempt("HTTPError",
                  << [code |-> attempt.auth_code,
                      code_verifier |-> attempt.code_verifier] >>,
                  << >>, << >>)
    /\ UNCHANGED <<client, now, issued>>
    /\ UNCHANGED one_caller
    /\ UNCHANGED <<use_case, inference, thread, listener, whole, factory, history, handler>>

\* login, lines 159-169: the POST is answered 2xx, the token is applied and
\* then looked at.
_get_access_token ==
    /\ attempt.pc = "exchange"
    /\ \E token \in LoginTokenResponses, t_refresh \in LaterReadings(now) :
         /\ client' = _set_variables_from_token(token, now, t_refresh)
         /\ now' = t_refresh
         /\ EndAttempt(IF Falsy(client'.access_token)
                       THEN "Token received from Keycloak did not contain 'access_token'"
                       ELSE "True",
                       << [code |-> attempt.auth_code,
                           code_verifier |-> attempt.code_verifier] >>,
                       <<token>>, <<now, t_refresh>>)
    /\ UNCHANGED issued
    /\ UNCHANGED one_caller
    /\ UNCHANGED <<use_case, inference, thread, listener, whole, factory, history, handler>>

NextLogin ==
    \/ _generate_auth_url
    \/ _print_auth_url
    \/ redirect_refused
    \/ HTTPServer_bind
    \/ HTTPServer_bind_fails
    \/ connection_arrives
    \/ handle_request
    \/ _get_access_token_raises
    \/ _get_access_token

\* A client constructed without arguments, or one that already holds tokens.
InitLogin ==
    /\ Init
    /\ now = 0
    /\ client.access_token_expires_in = 0
    /\ client.access_token_expires_at = NoTimestamp
    /\ client.refresh_token_expires_in = 0
    /\ client.refresh_token_expires_at = NoTimestamp
    /\ Falsy(client.access_token) <=> Falsy(client.refresh_token)

SpecLogin == InitLogin /\ [][NextLogin]_vars

\* ------------------------------------------------- a restored credential
\* GradioApp.setup_with_request builds the client from a session that holds
\* an access token (gradio_app.py, lines 79-80: without one it returns None
\* and builds nothing), and a key the session lacks reaches Client.__init__
\* as None (lines 58-72), expires_in included. The same calls of get() as in
\* Spec, on such a client.

\* expires_in = None: it is not 0.
NoExpiresIn == -1

RestoredCredentials ==
    [ access_token             : { a \in SeedAccessTokens : ~Falsy(a) },
      access_token_expires_in  : {NoExpiresIn, MaxExpiresIn},
      access_token_expires_at  : Timestamps,
      refresh_token            : SeedRefreshTokens,
      refresh_token_expires_in : {NoExpiresIn, 0, MaxExpiresIn},
      refresh_token_expires_at : {NoTimestamp, MaxNow \div TicksPerSec} ]

InitRestored ==
    /\ client \in RestoredCredentials
    /\ now \in 0 .. MaxNow
    /\ pc = "idle"
    /\ local = NoLocal
    /\ calls = NoCalls
    /\ sent = NoSent
    /\ resp = << >>
    /\ err = None
    /\ entry = [client |-> client, now |-> now]
    /\ read = -1
    /\ applied = << >>
    /\ use_case = "none"
    /\ inference = << >>
    /\ thread = [t \in Callers |-> NoThread]
    /\ listener = 0
    /\ whole = {}
    /\ factory = NoFactory
    /\ history = << >>
    /\ handler = [h \in Callers |-> NoHandler]
    /\ attempt = NoAttempt
    /\ issued = << >>
    /\ inbox = << >>
    /\ last = << >>
    /\ previous = << >>

SpecRestored == InitRestored /\ [][Next]_vars

\* ------------------------------------------------ a second call at once
\* Two calls of get() on one client, the second made as soon as the first
\* has ended, at the clock reading the first one left: the clock moves only
\* between the two readings of _set_variables_from_token.

\* The caller calls get() again (line 122) right after a get() that applied
\* a token.
get_again ==
    /\ pc \in {"done", "raised"}
    /\ Len(applied) = 2
    /\ Len(previous) = 0
    /\ previous' = <<applied[1]>>
    /\ EnterGet
    /\ UNCHANGED <<client, now>>
    /\ UNCHANGED <<use_case, inference, thread, listener, whole, factory,
                   history, handler, login_vars>>

NextAgain ==
    \/ get
    \/ _authenticate_181
    \/ _authenticate_183
    \/ _authenticate_185
    \/ _authenticate_185r
    \/ _authenticate_187
    \/ login
    \/ _start_server_bind_fails
    \/ _start_server_to_listen_for_auth_code
    \/ _get_access_token_http_error
    \/ login_exchange
    \/ _refresh_access_token_http_error
    \/ _refresh_access_token
    \/ get_request
    \/ get_again

\* The first call finds no access token or an expired one; the refresh
\* token has an expiry.
InitAgain ==
    /\ Init
    /\ client.access_token_expires_in = MaxExpiresIn
    /\ client.access_token_expires_at = 0
    /\ client.refresh_token = "R0"
    /\ client.refresh_token_expires_in = MaxExpiresIn

SpecAgain == InitAgain /\ [][NextAgain]_vars

\* ------------------------------------------------------------ properties

\* The credential the current get() found on entry.
E == entry.client

\* get() has returned or raised.
Finished == pc \in {"done", "raised"}

\* _authenticate has returned normally, or get() has ended.
AuthenticateLeft == pc \in {"request", "done", "raised"}

\* The stored timestamp is present and names an instant at or before t.
AtOrBefore(timestamp, t) ==
    timestamp # NoTimestamp /\ timestamp * TicksPerSec <= t

\* The stored timestamp is present and names an instant after t.
After(timestamp, t) ==
    timestamp # NoTimestamp /\ timestamp * TicksPerSec > t

ReauthenticationRequired == "Please refresh your login."

\* C1: a credential holding an access token and a refresh token, both with a
\* non-zero expires_in, whose access expiry is at or before the clock when
\* get() is called and whose refresh expiry is still after the clock at the
\* last expiry evaluation: the call runs _refresh_access_token exactly once
\* and never login.
C1_RefreshOnceNeverLogin ==
    ( /\ Finished
      /\ ~Falsy(E.access_token)
      /\ ~Falsy(E.refresh_token)
      /\ E.access_token_expires_in # 0
      /\ E.refresh_token_expires_in # 0
      /\ AtOrBefore(E.access_token_expires_at, entry.now)
      /\ After(E.refresh_token_expires_at, read) )
    => (calls.refresh = 1 /\ calls.login = 0)

C1_Witness ==
    /\ pc = "done"
    /\ ~Falsy(E.access_token)
    /\ ~Falsy(E.refresh_token)
    /\ E.access_token_expires_in # 0
    /\ E.refresh_token_expires_in # 0
    /\ AtOrBefore(E.access_token_expires_at, entry.now)
    /\ After(E.refresh_token_expires_at, read)
    /\ calls.refresh = 1
    /\ calls.post = 1
    /\ sent.refresh_token = E.refresh_token

\* C2: a credential holding an access token, both halves expiring
\* (expires_in # 0) and both expiry timestamps at or before the clock when
\* get() is called: the call raises "Please refresh your login.", makes no
\* network call at all and starts no login.
C2_BothExpiredRaises ==
    ( /\ Finished
      /\ ~Falsy(E.access_token)
      /\ E.access_token_expires_in # 0
      /\ E.refresh_token_expires_in # 0
      /\ AtOrBefore(E.access_token_expires_at, entry.now)
      /\ AtOrBefore(E.refresh_token_expires_at, entry.now) )
    => ( /\ err = ReauthenticationRequired
         /\ calls = NoCalls
         /\ sent = NoSent )

C2_Witness ==
    /\ pc = "raised"
    /\ err = ReauthenticationRequired
    /\ ~Falsy(E.access_token)
    /\ E.access_token_expires_in # 0
    /\ E.refresh_token_expires_in # 0
    /\ AtOrBefore(E.access_token_expires_at, entry.now)
    /\ AtOrBefore(E.refresh_token_expires_at, entry.now)
    /\ calls = NoCalls

\* C3: a credential holding an access token whose expiry timestamp is after
\* the clock at the expiry evaluation: _authenticate returns without login or
\* refresh, without a token-endpoint request, and leaves the six credential
\* fields as they were.
C3_ValidTokenNoCallsNoChange ==
    ( /\ pc \notin {"idle", "authenticate", "check183"}
      /\ ~Falsy(E.access_token)
      /\ After(E.access_token_expires_at, read) )
    => ( /\ AuthenticateLeft
         /\ calls.login = 0
         /\ calls.refresh = 0
         /\ calls.post = 0
         /\ err # ReauthenticationRequired
         /\ client = E )

C3_Witness ==
    /\ pc = "request"
    /\ ~Falsy(E.access_token)
    /\ E.access_token_expires_in # 0
    /\ After(E.access_token_expires_at, read)
    /\ calls = NoCalls
    /\ client = E

\* login() returned True: get() went on to its request.
LoginSucceeded == calls.login = 1 /\ (pc \in {"request", "done"} \/ calls.get = 1)

\* C4: when get() finds no access token, the call runs login exactly once
\* (listener, then one code exchange) and never the refresh path, and once
\* login has returned the credential holds the access token, the refresh
\* token and the expires_in values of the token the exchange returned.
C4_AbsentTokenLogsInOnce ==
    ( /\ pc \notin {"idle", "authenticate"}
      /\ Falsy(E.access_token) )
    => ( /\ calls.login = 1
         /\ calls.refresh = 0
         /\ calls.post <= 1
         /\ sent.refresh_token = NotSent
         /\ LoginSucceeded =>
              /\ local.auth_code # NotSent
              /\ calls.post = 1
              /\ Len(resp) = 1
              /\ "access_token" \in DOMAIN resp[1]
              /\ client.access_token = resp[1]["access_token"]
              /\ client.refresh_token = DictGet(resp[1], "refresh_token", None)
              /\ client.access_token_expires_in = DictGet(resp[1], "expires_in", 0)
              /\ client.refresh_token_expires_in
                   = DictGet(resp[1], "refresh_expires_in", 0) )

C4_Witness ==
    /\ pc = "done"
    /\ Falsy(E.access_token)
    /\ ~Falsy(E.refresh_token)
    /\ calls.login = 1
    /\ client.access_token = "A1"
    /\ client.refresh_token = "R1"
    /\ client.access_token_expires_in = MaxExpiresIn

\* C5: a credential holding an access token whose expires_in is 0 never leads
\* to a login, a refresh or a token-endpoint request, whatever its stored
\* access_token_expires_at (past, future or absent) and whatever the refresh
\* half holds; the credential stays as it was.
C5_NonExpiringAccessNeverRefreshed ==
    ( /\ pc # "idle"
      /\ ~Falsy(E.access_token)
      /\ E.access_token_expires_in = 0 )
    => ( /\ pc \in {"authenticate", "check183", "request", "done", "raised"}
         /\ calls.login = 0
         /\ calls.refresh = 0
         /\ calls.post = 0
         /\ err # ReauthenticationRequired
         /\ client = E )

C5_Witness ==
    /\ pc = "done"
    /\ ~Falsy(E.access_token)
    /\ E.access_token_expires_in = 0
    /\ AtOrBefore(E.access_token_expires_at, entry.now)
    /\ E.access_token_expires_at * TicksPerSec < entry.now
    /\ E.refresh_token_expires_in # 0
    /\ AtOrBefore(E.refresh_token_expires_at, entry.now)
    /\ calls.get = 1

\* C6: a refresh token whose expires_in is 0 is never classified as expired:
\* with an expired access token (expires_in # 0, timestamp absent or at or
\* before the clock when get() is called) the call runs the refresh path
\* exactly once and raises no re-authentication error, whatever the stored
\* refresh_token_expires_at.
C6_NonExpiringRefreshIsUsed ==
    ( /\ Finished
      /\ ~Falsy(E.access_token)
      /\ E.access_token_expires_in # 0
      /\ ( E.access_token_expires_at = NoTimestamp
           \/ AtOrBefore(E.access_token_expires_at, entry.now) )
      /\ E.refresh_token_expires_in = 0 )
    => ( /\ calls.refresh = 1
         /\ calls.login = 0
         /\ err # ReauthenticationRequired )

C6_Witness ==
    /\ pc = "done"
    /\ ~Falsy(E.access_token)
    /\ ~Falsy(E.refresh_token)
    /\ E.access_token_expires_in # 0
    /\ AtOrBefore(E.access_token_expires_at, entry.now)
    /\ E.refresh_token_expires_in = 0
    /\ AtOrBefore(E.refresh_token_expires_at, entry.now)
    /\ E.refresh_token_expires_at * TicksPerSec < entry.now
    /\ calls.refresh = 1

\* _authenticate found the access token unexpired and returned at line 184.
TreatedValid ==
    /\ AuthenticateLeft
    /\ calls.login = 0
    /\ calls.refresh = 0
    /\ err # ReauthenticationRequired

\* C7: no grace window. An access token with a non-zero expires_in and a
\* stored expiry is treated as valid only if the clock at the evaluation is
\* before the expiry instant, and as expired only if the clock is at or
\* after it; likewise the refresh token is used only before its expiry
\* instant and refused only at or after it.
C7_ExpiredIffNowAtOrAfterExpiry ==
    /\ ( /\ pc \notin {"idle", "authenticate", "check183"}
         /\ ~Falsy(E.access_token)
         /\ E.access_token_expires_in # 0
         /\ E.access_token_expires_at # NoTimestamp )
       => ( TreatedValid <=> read < E.access_token_expires_at * TicksPerSec )
    /\ ( /\ pc \in {"refresh", "check187", "request", "done", "raised"}
         /\ ~Falsy(E.access_token)
         /\ ~TreatedValid
         /\ E.refresh_token_expires_in # 0
         /\ E.refresh_token_expires_at # NoTimestamp )
       => ( calls.refresh = 1 <=> read < E.refresh_token_expires_at * TicksPerSec )

\* The boundary instant: the clock equals the access expiry at every
\* evaluation of the call, and the token was treated as expired (refreshed).
C7_Witness ==
    /\ pc = "done"
    /\ ~Falsy(E.access_token)
    /\ E.access_token_expires_in # 0
    /\ E.access_token_expires_at # NoTimestamp
    /\ E.access_token_expires_at * TicksPerSec = entry.now
    /\ read = entry.now
    /\ calls.refresh = 1

\* C8: with an expired access token and an absent refresh token the call
\* raises the re-authentication error and sends no refresh request, for every
\* refresh_token_expires_in.
C8_AbsentRefreshTokenIsExpired ==
    ( /\ Finished
      /\ ~Falsy(E.access_token)
      /\ E.access_token_expires_in # 0
      /\ ( E.access_token_expires_at = NoTimestamp
           \/ AtOrBefore(E.access_token_expires_at, entry.now) )
      /\ E.refresh_token = None )
    => ( /\ err = ReauthenticationRequired
         /\ calls.refresh = 0
         /\ calls.post = 0
         /\ sent.refresh_token = NotSent )

\* C9: once a 2xx token-endpoint response without access_token has been
\* received, on the login path or on the refresh path, get() raises and no
\* resource GET is issued.
C9_TokenWithoutAccessTokenFails ==
    ( /\ Len(resp) = 1
      /\ "access_token" \notin DOMAIN resp[1] )
    => ( /\ pc = "raised"
         /\ calls.get = 0
         /\ sent.bearer = NotSent )

\* C10: when get() raises before its resource GET (the listener failed, the
\* token endpoint answered non-2xx or without access_token, or both halves
\* were expired), the six credential fields are what they were on entry.
C10_FailedAttemptLeavesCredential ==
    ( /\ pc = "raised"
      /\ calls.get = 0 )
    => client = E

\* A token has been applied to the credential by login or by refresh.
TokenApplied == Len(resp) = 1 /\ Len(applied) = 2

\* C11: after a token with expires_in = e and refresh_expires_in = r (0 when
\* the key is absent) has been applied, the credential holds e and r as its
\* expires_in values, and each expires_at is the whole second of (the clock
\* as read for it + the expires_in); when both readings show the one instant
\* t0, these are t0 + e and t0 + r to the second.
C11_ExpiryIsClockPlusExpiresIn ==
    TokenApplied =>
      LET e == DictGet(resp[1], "expires_in", 0)
          r == DictGet(resp[1], "refresh_expires_in", 0)
      IN  /\ client.access_token_expires_in = e
          /\ client.refresh_token_expires_in = r
          /\ client.access_token_expires_at # NoTimestamp
          /\ client.refresh_token_expires_at # NoTimestamp
          /\ client.access_token_expires_at * TicksPerSec <= applied[1] + e
          /\ applied[1] + e < (client.access_token_expires_at + 1) * TicksPerSec
          /\ client.refresh_token_expires_at * TicksPerSec <= applied[2] + r
          /\ applied[2] + r < (client.refresh_token_expires_at + 1) * TicksPerSec

\* A login at an instant t0 that is not on a whole second, with a token whose
\* expires_in and refresh_expires_in differ and one of which is absent.
C11_Witness ==
    /\ TokenApplied
    /\ pc = "done"
    /\ calls.login = 1
    /\ applied[1] = applied[2]
    /\ applied[1] % TicksPerSec # 0
    /\ "refresh_expires_in" \notin DOMAIN resp[1]
    /\ DictGet(resp[1], "expires_in", 0) = MaxExpiresIn
    /\ client.access_token_expires_at
         = (applied[1] + MaxExpiresIn) \div TicksPerSec
    /\ client.refresh_token_expires_at = applied[1] \div TicksPerSec
    /\ client.refresh_token_expires_in = 0

\* C12: after a token has been applied, the access half and the refresh half
\* both come from that token: neither token of the previous credential is
\* kept, no expiry timestamp stays absent, and a response without
\* refresh_token leaves the stored refresh_token absent.
C12_BothHalvesReplaced ==
    TokenApplied =>
      /\ client.access_token = DictGet(resp[1], "access_token", None)
      /\ client.refresh_token = DictGet(resp[1], "refresh_token", None)
      /\ client.access_token \notin SeedAccessTokens \ {None}
      /\ client.refresh_token \notin SeedRefreshTokens \ {None}
      /\ "refresh_token" \notin DOMAIN resp[1] => client.refresh_token = None
      /\ client.access_token_expires_in = DictGet(resp[1], "expires_in", 0)
      /\ client.refresh_token_expires_in
           = DictGet(resp[1], "refresh_expires_in", 0)
      /\ client.access_token_expires_at # NoTimestamp
      /\ client.refresh_token_expires_at # NoTimestamp

\* A refresh whose response omits refresh_token: the refresh token that was
\* sent is gone afterwards.
C12_Witness ==
    /\ TokenApplied
    /\ pc = "done"
    /\ calls.refresh = 1
    /\ sent.refresh_token = "R0"
    /\ "refresh_token" \notin DOMAIN resp[1]
    /\ client.refresh_token = None
    /\ client.access_token = "A1"

\* C13: no resource GET is issued while _authenticate is running or after it
\* raised; the GET that is issued carries the access token the credential
\* holds after _authenticate returned, which is the token of the response
\* when a login or refresh was performed.
C13_GetAfterAuthenticate ==
    /\ pc \in {"authenticate", "check183", "check185", "check185r", "check187",
               "login", "listen", "exchange", "refresh", "request"}
         => (calls.get = 0 /\ sent.bearer = NotSent)
    /\ calls.get >= 1
         => /\ Finished
            /\ sent.bearer = client.access_token
            /\ TokenApplied
                 => sent.bearer = DictGet(resp[1], "access_token", None)
            /\ ~TokenApplied => sent.bearer = E.access_token
    /\ ( err \notin {None, "HTTPError"}
         \/ (err = "HTTPError" /\ calls.post = 1 /\ ~TokenApplied) )
         => (calls.get = 0 /\ sent.bearer = NotSent)

C13_Witness ==
    /\ pc = "done"
    /\ calls.refresh = 1
    /\ calls.get = 1
    /\ E.access_token = "A0"
    /\ client.access_token = "A1"
    /\ sent.bearer = "A1"

\* C14: one get() makes at most one login or refresh, at most one
\* token-endpoint POST and at most one resource GET; an HTTPError is raised
\* to the caller at once; after get() raised nothing more is done for that
\* call, and the resource GET, whatever its answer, leaves the credential as
\* it was.
C14_NoRetry ==
    [][ /\ calls'.post <= 1
        /\ calls'.get <= 1
        /\ calls'.login + calls'.refresh <= 1
        /\ err' = "HTTPError" => pc' = "raised"
        /\ pc = "raised" => (pc' = "idle" /\ client' = client)
        /\ pc = "request" => client' = client ]_vars

\* A refresh, then a non-2xx answer to the one resource GET.
C14_Witness ==
    /\ pc = "raised"
    /\ err = "HTTPError"
    /\ calls = [login |-> 0, refresh |-> 1, post |-> 1, get |-> 1]
    /\ client # E

\* C15: every request that carries the client's access token is gated: the
\* resource GET of Client.get comes after the decision procedure of the same
\* call, and the token that run_inference puts in its Authorization header
\* is present and is not one that _is_access_token_expired classifies as
\* expired at the moment the request is sent.
C15_EveryRequestIsGated ==
    /\ calls.get >= 1 => (read >= 0 \/ calls.login = 1)
    /\ Len(inference) = 1 =>
         LET c == inference[1].client
         IN  /\ ~Falsy(inference[1].authorization)
             /\ ~( /\ c.access_token_expires_in # 0
                   /\ ( c.access_token_expires_at = NoTimestamp
                        \/ c.access_token_expires_at * TicksPerSec
                             <= inference[1].now ) )

\* C16: the redirect listener of a login attempt, once bound, stops waiting
\* only for a request on the redirect path, and hands that request's code to
\* the exchange: a request on any other path does not end the wait.
C16_OnlyTheCallbackEndsTheWait ==
    [][ (pc = "listen" /\ pc' # "listen" /\ err' # "OSError")
          => (pc' = "exchange" /\ local'.auth_code # NotSent) ]_vars

\* C17: two callers of one client are not kept apart. The interleaving the
\* claim speaks of is the state C17_Witness, which is reached; in every state
\* of that kind the claim's consequence holds: when both callers wait for the
\* answer to a refresh request, neither has stored anything, and each has
\* posted the refresh token the client was constructed with, the same one;
\* and when both callers have been through a full login up to its token
\* request, neither has stored anything and the client was constructed
\* without an access token.
C17_BothCallersRefreshOrLogIn ==
    /\ (\A t \in Callers : thread[t].pc = "refresh_wait")
          => /\ client = Constructed
             /\ \A t \in Callers : thread[t].sent = Constructed.refresh_token
    /\ (\A t \in Callers : thread[t].pc = BeforeAssign(1) /\ thread[t].via = "login")
          => /\ client = Constructed
             /\ Falsy(Constructed.access_token)
             /\ \A t \in Callers : thread[t].both_logged_in

\* Both callers found the access token expired and have posted a refresh
\* request with the same refresh token, and neither has applied an answer;
\* before, on a client without an access token, both had run a full login.
C17_Witness ==
    /\ \A t \in Callers : thread[t].pc = "refresh_wait" /\ thread[t].sent = "R0"
    /\ \A t \in Callers : thread[t].both_logged_in
    /\ whole = {}
    /\ client = Constructed
    /\ ~Falsy(client.access_token)

\* C18: the credential is replaced as a unit: whenever a caller reads the
\* shared client (to evaluate expiry, to build a refresh request or its
\* Authorization header), the six fields it finds were written together, by
\* the constructor or by one _set_variables_from_token call.
C18_NoMixedCredentialIsRead ==
    \A t \in Callers : ~thread[t].mixed

\* C19: get_client is memoized. In any run of consecutive get_client calls
\* made with force_recreate false, every call returns the same Client
\* instance as the first call of the run, that instance is what
\* client_singleton held after the first call, and at all times
\* client_singleton is the instance the latest creating call returned.
C19_GetClientIsMemoized ==
    /\ \A i \in 1 .. Len(history) : \A j \in i .. Len(history) :
         ( \A k \in i .. j : /\ history[k].op = "get_client"
                             /\ ~history[k].force_recreate )
         => /\ history[j].result = history[i].result
            /\ history[j].result # 0
            /\ (j = Len(history) => factory.client_singleton = history[i].result)
    /\ \A i \in 1 .. Len(history) :
         (history[i].op = "get_client" /\ ~history[i].force_recreate
            /\ history[i].before # 0)
         => history[i].result = history[i].before

\* Three unforced get_client calls in a row, the later ones with an access
\* token the first did not pass: one Client exists, the first call's.
C19_Witness ==
    /\ Len(history) = 3
    /\ \A k \in 1 .. 3 : history[k].op = "get_client" /\ ~history[k].force_recreate
    /\ history[1].arguments.access_token = None
    /\ history[2].arguments.access_token = "T1"
    /\ history[3].result = 1
    /\ Len(factory.objects) = 1
    /\ factory.objects[1].access_token = None

\* C20: setup_with_request returns None and leaves ClientFactory as it was
\* (no Client constructed, client_singleton unchanged) when reading the
\* request's session raises AssertionError or the session holds no access
\* token (the key is missing or its value is empty); otherwise it returns a
\* newly constructed Client that is now client_singleton and whose six
\* fields are the session's values for the six keys, None for a missing key.
C20_SetupWithRequest ==
    \A i \in 1 .. Len(history) :
      history[i].op = "setup_with_request" =>
        LET h == history[i]
            session == h.request.session
        IN  IF ~h.request.available
               \/ "access_token" \notin DOMAIN session
               \/ session["access_token"] = ""
            THEN /\ h.result = 0
                 /\ h.constructed = 0
                 /\ h.after = h.before
            ELSE /\ h.result # 0
                 /\ h.constructed = 1
                 /\ h.result # h.before
                 /\ h.after = h.result
                 /\ \A key \in DOMAIN factory.objects[h.result] :
                      factory.objects[h.result][key] =
                        (IF key \in DOMAIN session THEN session[key] ELSE None)

\* An existing singleton made by get_client is replaced by a Client built
\* from a session that has the access token but not every other key, after
\* a request that was answered None changed nothing.
C20_Witness ==
    /\ Len(history) = 3
    /\ history[1].op = "get_client"
    /\ history[2].op = "setup_with_request"
    /\ history[2].result = 0
    /\ history[3].op = "setup_with_request"
    /\ history[3].result = 2
    /\ factory.client_singleton = 2
    /\ factory.objects[2].access_token = "S1"
    /\ factory.objects[2].access_token_expires_in = None
    /\ factory.objects[2].refresh_token = "SR1"

\* C21: the state carried by the callback is not validated. A redirect
\* (GET /callback?session_state=..&code=..&state=..) is taken whatever its
\* state is (the attempt's own, another or none): login goes on to the
\* exchange with that request's code, and a 2xx answer to the exchange is
\* applied to the credential.
C21_StateIsNotValidated ==
    [][ /\ \A c \in {None, "code1"} : \A s \in {0} \cup RandomValues :
             ( /\ attempt.pc = "bound" /\ attempt'.pc # "bound"
               /\ inbox[1] = [ method |-> "GET", path |-> "/callback",
                               question_mark |-> TRUE, parts |-> Query(c, s) ] )
               => ( /\ attempt'.pc = "exchange"
                    /\ attempt'.auth_code = c
                    /\ attempt'.callback_state = s )
        /\ ( attempt.pc = "exchange" /\ attempt'.pc # "exchange"
             /\ Len(last'[1].token) = 1 )
          => ( /\ last'[1].posted[1].code = attempt.auth_code
               /\ client' = _set_variables_from_token(
                              last'[1].token[1], last'[1].applied[1],
                              last'[1].applied[2]) ) ]_vars

\* A login has succeeded on a callback that carried a state other than the
\* one in the attempt's authorization URL.
C21_Witness ==
    /\ Len(last) = 1
    /\ last[1].outcome = "True"
    /\ last[1].callback_state # 0
    /\ last[1].callback_state # last[1].state
    /\ client.access_token = "A1"

\* C22: each login attempt is a new pending authorization request. Its
\* verifier and state differ from those of every other attempt, the challenge
\* in its URL is the SHA-256 of its verifier, the code_verifier posted in its
\* exchange is its own, and once the attempt has ended login holds no
\* verifier, state or challenge; the client never has more than its six
\* credential fields.
C22_AttemptsAreFresh ==
    /\ \A m \in 1 .. Len(issued) : \A n \in 1 .. Len(issued) :
         m # n => /\ issued[m].code_verifier # issued[n].code_verifier
                  /\ issued[m].state # issued[n].state
    /\ \A n \in 1 .. Len(issued) :
         issued[n].code_challenge = S256(issued[n].code_verifier)
    /\ attempt.pc # "none" =>
         /\ attempt.code_verifier = issued[Len(issued)].code_verifier
         /\ attempt.code_challenge = S256(attempt.code_verifier)
         /\ attempt.state = issued[Len(issued)].state
    /\ Len(last) = 1 =>
         /\ last[1].code_challenge = issued[last[1].n].code_challenge
         /\ \A i \in 1 .. Len(last[1].posted) :
              /\ last[1].posted[i].code_verifier = issued[last[1].n].code_verifier
              /\ \A m \in 1 .. Len(issued) :
                   m # last[1].n =>
                     last[1].posted[i].code_verifier # issued[m].code_verifier
    /\ attempt.pc = "none" =>
         /\ attempt.code_verifier = 0
         /\ attempt.state = 0
         /\ attempt.code_challenge = << >>
    /\ DOMAIN client = DOMAIN Constructed

\* The second attempt has posted its exchange, a first one having ended
\* before it.
C22_Witness ==
    /\ Len(issued) = 2
    /\ Len(last) = 1
    /\ last[1].n = 2
    /\ Len(last[1].posted) = 1
    /\ last[1].posted[1].code_verifier = issued[2].code_verifier
    /\ attempt.pc = "none"

\* C27: the listener is bound before the authorization URL is shown: as
\* long as an attempt has shown its URL its listener is bound or has already
\* handled its request, and no redirect is ever refused.
C27_ListenerBoundBeforeUrlShown ==
    /\ attempt.shown => (attempt.bound \/ attempt.pc = "exchange")
    /\ ~attempt.refused

\* C23: get_client with force_recreate true constructs a new Client, makes
\* it client_singleton and returns it, and its six fields are the arguments
\* of the call; with force_recreate false and a singleton in place it returns
\* that singleton, constructs nothing and changes no field of any Client.
C23_ForceRecreateAndFrame ==
    [][ ( Len(history') = Len(history) + 1
          /\ history'[Len(history')].op = "get_client" )
        => LET h == history'[Len(history')]
           IN  IF h.force_recreate
               THEN /\ h.result = Len(factory.objects) + 1
                    /\ factory'.client_singleton = h.result
                    /\ Len(factory'.objects) = h.result
                    /\ factory'.objects[h.result] = h.arguments
                    /\ \A k \in 1 .. Len(factory.objects) :
                         factory'.objects[k] = factory.objects[k]
               ELSE factory.client_singleton # 0
                    => /\ h.result = factory.client_singleton
                       /\ factory' = factory ]_vars

\* A forced call has replaced an existing singleton with a Client holding
\* the passed token, and an unforced call passing no token has returned it.
C23_Witness ==
    /\ Len(history) = 3
    /\ \A k \in 1 .. 3 : history[k].op = "get_client"
    /\ history[1].arguments.access_token = None
    /\ history[2].force_recreate
    /\ history[2].arguments.access_token = "T1"
    /\ history[2].result = 2
    /\ ~history[3].force_recreate
    /\ history[3].arguments.access_token = None
    /\ history[3].result = 2
    /\ factory.objects[2].access_token = "T1"
    /\ factory.objects[1].access_token = None

\* C28: requests are isolated from one another: the client that
\* ClientFactory.get_client() returns to a handler after setup_with_request
\* has completed for its request, whatever that call returned, is never a
\* Client that another handler constructed from its own request's session,
\* and holds no access or refresh token of another request's session,
\* however the two handlers' calls follow one another or interleave.
C28_RequestsAreIsolated ==
    \A h \in Callers : \A u \in Callers \ {h} :
      handler[h].pc = "returned"
      => /\ handler[h].result # 0
         /\ factory.objects[handler[h].result].access_token
              # SessionAccessToken(u)
         /\ factory.objects[handler[h].result].refresh_token
              # SessionRefreshToken(u)

\* C24: a token with an expires_in other than 0 (None included) and no
\* expires_at is expired. A get() on a client that holds an access token in
\* that condition never passes _authenticate without a refresh and never
\* sends that token as Bearer; if the refresh half is in the same condition,
\* _authenticate raises "Please refresh your login." and the call makes no
\* network call.
C24_AbsentExpiryIsExpired ==
    ( /\ ~Falsy(E.access_token)
      /\ E.access_token_expires_in # 0
      /\ E.access_token_expires_at = NoTimestamp )
    => /\ pc \in {"request", "done"} => (calls.refresh = 1 /\ calls.post = 1)
       /\ sent.bearer # E.access_token
       /\ ( /\ AuthenticateLeft
            /\ E.refresh_token_expires_in # 0
            /\ E.refresh_token_expires_at = NoTimestamp )
          => ( /\ pc = "raised"
               /\ err = ReauthenticationRequired
               /\ calls = NoCalls
               /\ sent = NoSent )

\* A client restored with tokens and neither expires_in nor expires_at, for
\* either half: get() has raised the re-authentication error.
C24_Witness ==
    /\ pc = "raised"
    /\ err = ReauthenticationRequired
    /\ E.access_token = "A0"
    /\ E.refresh_token = "R0"
    /\ E.access_token_expires_in = NoExpiresIn
    /\ E.access_token_expires_at = NoTimestamp
    /\ E.refresh_token_expires_in = NoExpiresIn
    /\ E.refresh_token_expires_at = NoTimestamp
    /\ calls = NoCalls

\* C25: the decision procedure is total while the clock advances between
\* its evaluations. A call that went past line 183 found the access token
\* expired; from there the second evaluation at line 185 finds it expired
\* again, and either the refresh is made or line 187 finds the refresh token
\* expired and raises: no evaluation falls through, so _authenticate never
\* returns normally with a token it found expired and no refresh made.
C25_DecisionIsTotal ==
    [][ /\ pc = "authenticate" => pc' \in {"authenticate", "login", "check183"}
        /\ pc = "check183" => pc' \in {"check183", "request", "check185"}
        /\ pc = "check185" => pc' \in {"check185", "check185r"}
        /\ pc = "check185r" => pc' \in {"check185r", "refresh", "check187"}
        /\ pc = "check187" => ( /\ pc' \in {"check187", "raised"}
                                /\ pc' = "raised" => ( /\ err' = ReauthenticationRequired
                                                       /\ calls' = NoCalls ) )
        /\ (pc = "check183" /\ pc' = "request")
             => ( /\ ~_is_access_token_expired(client, now)
                  /\ calls' = NoCalls
                  /\ client' = client ) ]_vars

\* The refresh token was still valid when get() was called and when the
\* access token was found expired, the clock advanced, and line 187 raised.
C25_Witness ==
    /\ pc = "raised"
    /\ err = ReauthenticationRequired
    /\ ~Falsy(E.access_token)
    /\ E.refresh_token_expires_in # 0
    /\ After(E.refresh_token_expires_at, entry.now)
    /\ AtOrBefore(E.refresh_token_expires_at, read)
    /\ entry.now < read

\* C26: _authenticate is idempotent after success. When a login or refresh
\* has applied a token with an access_token and an expires_in of 0 or of at
\* least one second, a second call made at the instant at which that token's
\* access expiry was computed takes the branch of line 183: no login, no
\* refresh, no token request, and the credential stays as the first call
\* left it.
C26_SecondCallDoesNothing ==
    ( /\ Len(previous) = 1
      /\ previous[1] = entry.now
      /\ ~Falsy(E.access_token)
      /\ ( E.access_token_expires_in = 0
           \/ E.access_token_expires_in >= TicksPerSec ) )
    => /\ calls.login = 0
       /\ calls.refresh = 0
       /\ calls.post = 0
       /\ client = E
       /\ \/ pc \in {"authenticate", "check183", "request", "done"}
          \/ pc = "raised" /\ err = "HTTPError" /\ calls.get = 1

\* The second call has returned after its GET alone; the first call applied
\* a one-second token at an instant that is not a whole second.
C26_Witness ==
    /\ Len(previous) = 1
    /\ previous[1] = entry.now
    /\ entry.now % TicksPerSec # 0
    /\ E.access_token = "A1"
    /\ E.access_token_expires_in = TicksPerSec
    /\ pc = "done"
    /\ calls = [NoCalls EXCEPT !.get = 1]
    /\ client = E

=============================================================================
